---- MODULE Spec2Model ----
(***************************************************************************)
(* A model of the MuSig2 bindings of rust-secp256k1 (src/src/musig.rs).    *)
(*                                                                         *)
(* The Rust functions of musig.rs are modelled operator by operator under  *)
(* their own names (KeyAggCache_new, new_nonce_pair, Session_partial_sign, *)
(* ...).  The C library they call through ffi:: and the crate's schnorr    *)
(* and context modules are not among the source files; they are modelled   *)
(* from the specification (operators secp256k1_musig_*, schnorr_verify,    *)
(* the curve primitives) over a small prime-order group: the additive      *)
(* group of integers modulo GroupOrder, generator 1, identity 0.           *)
(***************************************************************************)
EXTENDS Integers, Sequences, FiniteSets, TLC

(***************************************************************************)
(* Bounds of the model.                                                    *)
(***************************************************************************)
NKeys == 2        \* distinct key pairs a signer may hold
MaxSigners == 2   \* longest key list of a signing run
MaxSeed == 2      \* session seeds are drawn from 0..MaxSeed
MaxMsg == 1       \* messages are drawn from 0..MaxMsg
MaxSigns == 3     \* partial_sign calls recorded in one run
MaxImports == 2   \* SecretNonce objects rebuilt by dangerous_from_bytes
MaxExports == 1   \* SecretNonce objects turned into bytes by dangerous_into_bytes
MaxTweaks == 2    \* tweak calls on one cache
NThreads == 2     \* threads that use the single-signer functions of secp256k1.rs
MaxStarts == 2    \* runs of secp256k1_start that are counted

(***************************************************************************)
(* The curve primitive (external): a group of prime order.  A point is its *)
(* own discrete logarithm; 0 is the point at infinity.  P and -P share an  *)
(* x-coordinate, and exactly one of them has an even y-coordinate.         *)
(***************************************************************************)
GroupOrder == 10007

Generator == 1

Infinity == 0

Scalars == 0..(GroupOrder - 1)

scalar_add(a, b) == (a + b) % GroupOrder

scalar_mul(a, b) == (a * b) % GroupOrder

scalar_negate(a) == (GroupOrder - a) % GroupOrder

ge_add(P, R) == (P + R) % GroupOrder

ge_neg(P) == (GroupOrder - P) % GroupOrder

ecmult(k, P) == (k * P) % GroupOrder

ge_is_infinity(P) == P = Infinity

has_odd_y(P) == P > (GroupOrder - 1) \div 2

\* PublicKey::x_only_public_key: the x-coordinate, named by the point of
\* even y that carries it.
x_only_public_key(P) == IF has_odd_y(P) THEN ge_neg(P) ELSE P

lift_x(x) == x

(***************************************************************************)
(* Tagged hashing (external).  hash_mix absorbs one word; tagged_hash      *)
(* absorbs a sequence of words under a tag and yields a scalar.            *)
(***************************************************************************)
hash_mix(h, x) ==
    ((((h + x + 11) * (h + 7)) % GroupOrder) * ((h + 3 * x + 5) % GroupOrder)
        + x + 1) % GroupOrder

RECURSIVE hash_absorb(_, _)
hash_absorb(h, words) ==
    IF words = <<>> THEN h
    ELSE hash_absorb(hash_mix(h, Head(words) % GroupOrder), Tail(words))

tagged_hash(tag, words) == hash_absorb(hash_mix(tag, Len(words)), words)

TagKeyAggList == 101
TagKeyAggCoef == 102
TagNonce == 103
TagNonceCoef == 104
TagChallenge == 105
TagBlind == 106

(***************************************************************************)
(* Optional arguments: None, or Some(v).                                   *)
(***************************************************************************)
None == [some |-> FALSE, v |-> 0]

Some(x) == [some |-> TRUE, v |-> x]

\* bitwise exclusive or of two non-negative integers
RECURSIVE xor(_, _)
xor(a, b) ==
    IF a = 0 THEN b
    ELSE IF b = 0 THEN a
    ELSE (((a % 2) + (b % 2)) % 2) + 2 * xor(a \div 2, b \div 2)

(***************************************************************************)
(* Keys.  SecretKey(i) is the i-th secret key; a Keypair holds the secret  *)
(* key and its public key.                                                 *)
(***************************************************************************)
KeyIds == 1..NKeys

SecretKey(i) == (1234 * i + 567) % GroupOrder

PublicKey_from_secret_key(sk) == ecmult(sk, Generator)

Keypair_from_secret_key(sk) == [sk |-> sk, pk |-> PublicKey_from_secret_key(sk)]

PubKeyOf(i) == PublicKey_from_secret_key(SecretKey(i))

(***************************************************************************)
(* ffi::secp256k1_musig_pubkey_agg and the key aggregation cache.          *)
(***************************************************************************)
RECURSIVE second_pk_of(_, _)
second_pk_of(first, pubkeys) ==
    IF pubkeys = <<>> THEN Infinity
    ELSE IF Head(pubkeys) # first THEN Head(pubkeys)
    ELSE second_pk_of(first, Tail(pubkeys))

secp256k1_musig_keyaggcoef(pks_hash, second_pk, pk) ==
    IF pk = second_pk THEN 1
    ELSE tagged_hash(TagKeyAggCoef, <<pks_hash, pk>>)

RECURSIVE musig_pubkey_sum(_, _, _)
musig_pubkey_sum(pks_hash, second_pk, pubkeys) ==
    IF pubkeys = <<>> THEN Infinity
    ELSE ge_add(ecmult(secp256k1_musig_keyaggcoef(pks_hash, second_pk, Head(pubkeys)),
                       Head(pubkeys)),
                musig_pubkey_sum(pks_hash, second_pk, Tail(pubkeys)))

\* returns [ret, cache, agg_pk]; ret = 0 when no aggregate key exists
secp256k1_musig_pubkey_agg(pubkeys) ==
    LET pks_hash == tagged_hash(TagKeyAggList, pubkeys)
        second_pk == second_pk_of(Head(pubkeys), pubkeys)
        pk == musig_pubkey_sum(pks_hash, second_pk, pubkeys)
    IN  [ret |-> IF ge_is_infinity(pk) THEN 0 ELSE 1,
         cache |-> [pk |-> pk, second_pk |-> second_pk, pks_hash |-> pks_hash,
                    parity_acc |-> FALSE, tweak |-> 0],
         agg_pk |-> x_only_public_key(pk)]

(***************************************************************************)
(* Results of a call: a value, or a panic with its message.                *)
(***************************************************************************)
Returned(x) == [panic |-> "", val |-> x]

Panic(msg) == [panic |-> msg, val |-> 0]

(***************************************************************************)
(* KeyAggCache::new                                                        *)
(***************************************************************************)
NoCache == [st |-> "none"]

\* a key aggregation that sorted the keys before combining them
KeyAggCache_new_sorted(pubkeys) ==
    IF pubkeys = <<>> THEN Panic("Cannot aggregate an empty slice of pubkeys")
    ELSE LET sorted == CHOOSE q \in [DOMAIN pubkeys -> {pubkeys[i] : i \in DOMAIN pubkeys}] :
                           /\ \A i, j \in DOMAIN q : i < j => q[i] <= q[j]
                           /\ \A i \in DOMAIN q :
                                 Cardinality({j \in DOMAIN q : q[j] = q[i]}) =
                                 Cardinality({j \in DOMAIN q : pubkeys[j] = q[i]})
             r == secp256k1_musig_pubkey_agg(sorted)
         IN  IF r.ret = 0 THEN Panic("Invalid XOnlyPublicKey in input pubkeys")
             ELSE Returned([st |-> "ok", data |-> r.cache,
                            aggregated_xonly_public_key |-> r.agg_pk])

KeyAggCache_new(pubkeys) ==
    IF pubkeys = <<>> THEN Panic("Cannot aggregate an empty slice of pubkeys")
    ELSE LET r == secp256k1_musig_pubkey_agg(pubkeys)
         IN  IF r.ret = 0 THEN Panic("Invalid XOnlyPublicKey in input pubkeys")
             ELSE Returned([st |-> "ok", data |-> r.cache,
                            aggregated_xonly_public_key |-> r.agg_pk])

agg_pk(key_agg_cache) == key_agg_cache.aggregated_xonly_public_key

(***************************************************************************)
(* SessionSecretRand                                                       *)
(***************************************************************************)
\* from_rng: whatever 32 bytes the generator yields
(***************************************************************************)
(* ffi::secp256k1_musig_pubkey_get, the two tweak functions of the library *)
(* and KeyAggCache::agg_pk_full, pubkey_ec_tweak_add and                   *)
(* pubkey_xonly_tweak_add.  An x-only tweak first replaces an aggregate    *)
(* with odd y by its negation; the tweak fails, and the cache is not       *)
(* written, when the tweaked aggregate is the point at infinity.           *)
(***************************************************************************)
secp256k1_musig_pubkey_get(cache) ==
    [ret |-> IF ge_is_infinity(cache.pk) THEN 0 ELSE 1, pk |-> cache.pk]

agg_pk_full(key_agg_cache) ==
    LET r == secp256k1_musig_pubkey_get(key_agg_cache.data)
    IN  IF r.ret = 0 THEN Panic("All the arguments are valid") ELSE Returned(r.pk)

secp256k1_musig_pubkey_tweak_add_internal(cache, tweak, xonly_tweak) ==
    LET flip == xonly_tweak /\ has_odd_y(cache.pk)
        pk0 == IF flip THEN ge_neg(cache.pk) ELSE cache.pk
        tw0 == IF flip THEN scalar_negate(cache.tweak) ELSE cache.tweak
        pk1 == ge_add(pk0, ecmult(tweak, Generator))
    IN  IF ge_is_infinity(pk1)
        THEN [ret |-> 0, cache |-> cache, output_pubkey |-> Infinity]
        ELSE [ret |-> 1,
              cache |-> [cache EXCEPT !.pk = pk1,
                                      !.tweak = scalar_add(tw0, tweak),
                                      !.parity_acc = IF flip THEN ~cache.parity_acc
                                                     ELSE cache.parity_acc],
              output_pubkey |-> pk1]

secp256k1_musig_pubkey_ec_tweak_add(cache, tweak) ==
    secp256k1_musig_pubkey_tweak_add_internal(cache, tweak, FALSE)

secp256k1_musig_pubkey_xonly_tweak_add(cache, tweak) ==
    secp256k1_musig_pubkey_tweak_add_internal(cache, tweak, TRUE)

\* a tweak that wrote the returned key into the cache without looking at the
\* library's return value
pubkey_ec_tweak_add_unchecked(self, tweak) ==
    LET r == secp256k1_musig_pubkey_ec_tweak_add(self.data, tweak)
    IN  [res |-> IF r.ret = 0 THEN [ok |-> FALSE, val |-> 0, err |-> "InvalidTweakErr"]
                 ELSE [ok |-> TRUE, val |-> r.output_pubkey, err |-> ""],
         cache |-> [self EXCEPT !.data = r.cache,
                                !.aggregated_xonly_public_key =
                                    x_only_public_key(r.output_pubkey)]]

\* a tweak that did not store the new aggregate key in the cache
pubkey_ec_tweak_add_stale(self, tweak) ==
    LET r == secp256k1_musig_pubkey_ec_tweak_add(self.data, tweak)
    IN  IF r.ret = 0
        THEN [res |-> [ok |-> FALSE, val |-> 0, err |-> "InvalidTweakErr"],
              cache |-> [self EXCEPT !.data = r.cache]]
        ELSE [res |-> [ok |-> TRUE, val |-> r.output_pubkey, err |-> ""],
              cache |-> [self EXCEPT !.data = r.cache]]

\* both return [res, cache]: the Result and the cache after the call
pubkey_ec_tweak_add(self, tweak) ==
    LET r == secp256k1_musig_pubkey_ec_tweak_add(self.data, tweak)
    IN  IF r.ret = 0
        THEN [res |-> [ok |-> FALSE, val |-> 0, err |-> "InvalidTweakErr"],
              cache |-> [self EXCEPT !.data = r.cache]]
        ELSE [res |-> [ok |-> TRUE, val |-> r.output_pubkey, err |-> ""],
              cache |-> [self EXCEPT !.data = r.cache,
                                     !.aggregated_xonly_public_key =
                                         x_only_public_key(r.output_pubkey)]]

\* an x-only tweak that did not store the new aggregate key in the cache
pubkey_xonly_tweak_add_stale(self, tweak) ==
    LET r == secp256k1_musig_pubkey_xonly_tweak_add(self.data, tweak)
    IN  IF r.ret = 0
        THEN [res |-> [ok |-> FALSE, val |-> 0, err |-> "InvalidTweakErr"],
              cache |-> [self EXCEPT !.data = r.cache]]
        ELSE [res |-> [ok |-> TRUE, val |-> r.output_pubkey, err |-> ""],
              cache |-> [self EXCEPT !.data = r.cache]]

\* an x-only tweak that called the library's plain tweak
pubkey_xonly_tweak_add_plain(self, tweak) ==
    LET r == secp256k1_musig_pubkey_ec_tweak_add(self.data, tweak)
    IN  IF r.ret = 0
        THEN [res |-> [ok |-> FALSE, val |-> 0, err |-> "InvalidTweakErr"],
              cache |-> [self EXCEPT !.data = r.cache]]
        ELSE [res |-> [ok |-> TRUE, val |-> r.output_pubkey, err |-> ""],
              cache |-> [self EXCEPT !.data = r.cache,
                                     !.aggregated_xonly_public_key =
                                         x_only_public_key(r.output_pubkey)]]

pubkey_xonly_tweak_add(self, tweak) ==
    LET r == secp256k1_musig_pubkey_xonly_tweak_add(self.data, tweak)
    IN  IF r.ret = 0
        THEN [res |-> [ok |-> FALSE, val |-> 0, err |-> "InvalidTweakErr"],
              cache |-> [self EXCEPT !.data = r.cache]]
        ELSE [res |-> [ok |-> TRUE, val |-> r.output_pubkey, err |-> ""],
              cache |-> [self EXCEPT !.data = r.cache,
                                     !.aggregated_xonly_public_key =
                                         x_only_public_key(r.output_pubkey)]]

SessionSecretRand_from_rng(bytes) == Returned(bytes)

\* a constructor that did not look at the bytes
SessionSecretRand_assume_unique_unchecked(inner) == Returned(inner)

SessionSecretRand_assume_unique_per_nonce_gen(inner) ==
    IF inner # 0 THEN Returned(inner)
    ELSE Panic("session secrets may not be all zero")

(***************************************************************************)
(* ffi::secp256k1_musig_nonce_gen: the nonce pair is derived from the      *)
(* session seed and bound to the public key and, when given, the secret    *)
(* key, the message, the aggregate key and the extra input.  It fails on   *)
(* an all-zero seed.                                                       *)
(***************************************************************************)
\* the process-wide signing context: the seed of the last with_global_context
\* call, from which the context was re-randomised
VARIABLE ctxSeed

\* the generator multiplication of a randomized context: the scalar is offset
\* by a blinding value derived from the seed of the last re-randomisation and
\* the product is corrected by the matching point
secp256k1_ecmult_gen_uncorrected(ctx_seed, k) ==
    LET blind == tagged_hash(TagBlind, <<ctx_seed>>)
    IN  ecmult(scalar_add(k, blind), Generator)

secp256k1_ecmult_gen(ctx_seed, k) ==
    LET blind == tagged_hash(TagBlind, <<ctx_seed>>)
    IN  ge_add(ecmult(scalar_add(k, blind), Generator), ge_neg(ecmult(blind, Generator)))

opt_words(o) == <<IF o.some THEN 1 ELSE 0, o.v>>

nonce_function_musig(session_secrand, sec_key, pub_key, msg, agg, extra, i) ==
    1 + (tagged_hash(TagNonce,
                     <<session_secrand, pub_key, i>> \o opt_words(sec_key)
                         \o opt_words(msg) \o opt_words(agg) \o opt_words(extra))
            % (GroupOrder - 1))

secp256k1_musig_nonce_gen(session_secrand, sec_key, pub_key, msg, key_agg_cache, extra) ==
    LET agg == IF key_agg_cache.some
               THEN Some(x_only_public_key(key_agg_cache.v.data.pk)) ELSE None
        k1 == nonce_function_musig(session_secrand, sec_key, pub_key, msg, agg, extra, 1)
        k2 == nonce_function_musig(session_secrand, sec_key, pub_key, msg, agg, extra, 2)
    IN  [ret |-> IF session_secrand = 0 THEN 0 ELSE 1,
         sec_nonce |-> [magic |-> TRUE, k1 |-> k1, k2 |-> k2, pk |-> pub_key],
         pub_nonce |-> [R1 |-> secp256k1_ecmult_gen(ctxSeed, k1),
                        R2 |-> secp256k1_ecmult_gen(ctxSeed, k2)]]

(***************************************************************************)
(* new_nonce_pair and KeyAggCache::nonce_gen.  `seed` is what the call     *)
(* hands to with_global_context.                                           *)
(***************************************************************************)
nonce_pair_seed(session_secrand, sec_key, extra_rand) ==
    LET s1 == IF sec_key.some THEN xor(session_secrand, sec_key.v) ELSE session_secrand
    IN  IF extra_rand.some THEN xor(s1, extra_rand.v) ELSE s1

\* a nonce pair derived from the XORed seed instead of the session secret
new_nonce_pair_xored(session_secrand, key_agg_cache, sec_key, pub_key, msg, extra_rand) ==
    LET r == secp256k1_musig_nonce_gen(nonce_pair_seed(session_secrand, sec_key, extra_rand),
                                       sec_key, pub_key, msg, key_agg_cache, extra_rand)
    IN  IF r.ret = 0 THEN Panic("A zero session id was supplied")
        ELSE Returned([sec_nonce |-> r.sec_nonce, pub_nonce |-> r.pub_nonce])

new_nonce_pair(session_secrand, key_agg_cache, sec_key, pub_key, msg, extra_rand) ==
    LET r == secp256k1_musig_nonce_gen(session_secrand, sec_key, pub_key, msg,
                                       key_agg_cache, extra_rand)
    IN  IF r.ret = 0 THEN Panic("A zero session id was supplied")
        ELSE Returned([sec_nonce |-> r.sec_nonce, pub_nonce |-> r.pub_nonce])

KeyAggCache_nonce_gen(self, session_secrand, pub_key, msg, extra_rand) ==
    new_nonce_pair(session_secrand, Some(self), None, pub_key, Some(msg), extra_rand)

(***************************************************************************)
(* SecretNonce: the dangerous byte export and import.                      *)
(***************************************************************************)
SecretNonce_dangerous_into_bytes(self) == self

SecretNonce_dangerous_from_bytes(array) == array

(***************************************************************************)
(* ffi::secp256k1_musig_nonce_agg and AggregatedNonce::new.  A component   *)
(* whose sum is the point at infinity is replaced by the generator.        *)
(***************************************************************************)
RECURSIVE sum_pubnonces(_)
sum_pubnonces(pubnonces) ==
    IF pubnonces = <<>> THEN [R1 |-> Infinity, R2 |-> Infinity]
    ELSE LET rest == sum_pubnonces(Tail(pubnonces))
         IN  [R1 |-> ge_add(Head(pubnonces).R1, rest.R1),
              R2 |-> ge_add(Head(pubnonces).R2, rest.R2)]

secp256k1_musig_nonce_agg(pubnonces) ==
    LET s == sum_pubnonces(pubnonces)
    IN  [ret |-> 1,
         aggnonce |-> [R1 |-> IF ge_is_infinity(s.R1) THEN Generator ELSE s.R1,
                       R2 |-> IF ge_is_infinity(s.R2) THEN Generator ELSE s.R2]]

\* a nonce aggregation that passed one nonce too few to the library
AggregatedNonce_new_short(nonces) ==
    IF nonces = <<>> THEN Panic("Cannot aggregate an empty slice of nonces")
    ELSE LET r == secp256k1_musig_nonce_agg(
                      IF Len(nonces) = 1 THEN nonces ELSE SubSeq(nonces, 1, Len(nonces) - 1))
         IN  IF r.ret = 0
             THEN Panic("Public key nonces are well-formed and valid in rust typesystem")
             ELSE Returned(r.aggnonce)

\* a nonce aggregation that refuses a sum at infinity
AggregatedNonce_new_strict(nonces) ==
    IF nonces = <<>> THEN Panic("Cannot aggregate an empty slice of nonces")
    ELSE LET r == secp256k1_musig_nonce_agg(nonces)
             sum == sum_pubnonces(nonces)
         IN  IF r.ret = 0 \/ ge_is_infinity(sum.R1) \/ ge_is_infinity(sum.R2)
             THEN Panic("Public key nonces are well-formed and valid in rust typesystem")
             ELSE Returned(r.aggnonce)

AggregatedNonce_new(nonces) ==
    IF nonces = <<>> THEN Panic("Cannot aggregate an empty slice of nonces")
    ELSE LET r == secp256k1_musig_nonce_agg(nonces)
         IN  IF r.ret = 0
             THEN Panic("Public key nonces are well-formed and valid in rust typesystem")
             ELSE Returned(r.aggnonce)

(***************************************************************************)
(* ffi::secp256k1_musig_nonce_process and Session::new.  The session holds *)
(* the final nonce R = R1 + b*R2, the nonce coefficient b, the challenge   *)
(* and the tweak's share of s.  It fails when R is the point at infinity.  *)
(***************************************************************************)
secp256k1_musig_nonce_process(agg_nonce, msg, cache) ==
    LET agg_x == x_only_public_key(cache.pk)
        b == tagged_hash(TagNonceCoef, <<agg_nonce.R1, agg_nonce.R2, agg_x, msg>>)
        fin == ge_add(agg_nonce.R1, ecmult(b, agg_nonce.R2))
        e == tagged_hash(TagChallenge, <<x_only_public_key(fin), agg_x, msg>>)
        et == scalar_mul(e, cache.tweak)
    IN  [ret |-> IF ge_is_infinity(fin) THEN 0 ELSE 1,
         session |-> [fin_nonce_parity |-> has_odd_y(fin),
                      fin_nonce |-> x_only_public_key(fin),
                      noncecoef |-> b,
                      challenge |-> e,
                      s_part |-> IF has_odd_y(cache.pk) THEN scalar_negate(et) ELSE et]]

\* a session built without the caller's message
Session_new_nomsg(key_agg_cache, agg_nonce, msg) ==
    LET r == secp256k1_musig_nonce_process(agg_nonce, 0, key_agg_cache.data)
    IN  IF r.ret = 0
        THEN Panic("Impossible to construct invalid arguments in safe rust.")
        ELSE Returned(r.session)

\* a Session::new that takes the session out whatever the library returned
Session_new_unchecked(key_agg_cache, agg_nonce, msg) ==
    Returned(secp256k1_musig_nonce_process(agg_nonce, msg, key_agg_cache.data).session)

Session_new(key_agg_cache, agg_nonce, msg) ==
    LET r == secp256k1_musig_nonce_process(agg_nonce, msg, key_agg_cache.data)
    IN  IF r.ret = 0
        THEN Panic("Impossible to construct invalid arguments in safe rust.")
        ELSE Returned(r.session)

(***************************************************************************)
(* ffi::secp256k1_musig_partial_sign and Session::partial_sign.  The call  *)
(* fails on a secret nonce that was already used (zeroed) or that was      *)
(* generated for another public key; it zeroes the secret nonce.           *)
(***************************************************************************)
ZeroedSecNonce == [magic |-> FALSE, k1 |-> 0, k2 |-> 0, pk |-> 0]

secp256k1_musig_partial_sign(secnonce, keypair, cache, session) ==
    LET mu == secp256k1_musig_keyaggcoef(cache.pks_hash, cache.second_pk, keypair.pk)
        sk == IF has_odd_y(cache.pk) # cache.parity_acc
              THEN scalar_negate(keypair.sk) ELSE keypair.sk
        k1 == IF session.fin_nonce_parity THEN scalar_negate(secnonce.k1) ELSE secnonce.k1
        k2 == IF session.fin_nonce_parity THEN scalar_negate(secnonce.k2) ELSE secnonce.k2
        s == scalar_add(scalar_mul(scalar_mul(session.challenge, mu), sk),
                        scalar_add(k1, scalar_mul(session.noncecoef, k2)))
    IN  [ret |-> IF secnonce.magic /\ secnonce.pk = keypair.pk THEN 1 ELSE 0,
         partial_sig |-> s,
         secnonce |-> ZeroedSecNonce]

\* a partial_sign without the assertion on the library's result
Session_partial_sign_unasserted(self, secnonce, keypair, key_agg_cache) ==
    Returned(secp256k1_musig_partial_sign(secnonce, keypair, key_agg_cache.data, self).partial_sig)

Session_partial_sign(self, secnonce, keypair, key_agg_cache) ==
    LET r == secp256k1_musig_partial_sign(secnonce, keypair, key_agg_cache.data, self)
    IN  IF r.ret # 1 THEN Panic("assertion failed: res == 1")
        ELSE Returned(r.partial_sig)

(***************************************************************************)
(* ffi::secp256k1_musig_partial_sig_verify and Session::partial_verify     *)
(***************************************************************************)
secp256k1_musig_partial_sig_verify(partial_sig, pub_nonce, pub_key, cache, session) ==
    LET rj == ge_add(pub_nonce.R1, ecmult(session.noncecoef, pub_nonce.R2))
        re == IF session.fin_nonce_parity THEN ge_neg(rj) ELSE rj
        mu == secp256k1_musig_keyaggcoef(cache.pks_hash, cache.second_pk, pub_key)
        pk == IF has_odd_y(cache.pk) # cache.parity_acc THEN ge_neg(pub_key) ELSE pub_key
    IN  IF ecmult(partial_sig, Generator)
            = ge_add(re, ecmult(scalar_mul(session.challenge, mu), pk))
        THEN 1 ELSE 0

\* a partial verification that read the library's return value the wrong way
Session_partial_verify_inverted(self, key_agg_cache, partial_sig, pub_nonce, pub_key) ==
    secp256k1_musig_partial_sig_verify(partial_sig, pub_nonce, pub_key,
                                       key_agg_cache.data, self) = 0

Session_partial_verify(self, key_agg_cache, partial_sig, pub_nonce, pub_key) ==
    secp256k1_musig_partial_sig_verify(partial_sig, pub_nonce, pub_key,
                                       key_agg_cache.data, self) = 1

(***************************************************************************)
(* ffi::secp256k1_musig_partial_sig_agg and Session::partial_sig_agg       *)
(***************************************************************************)
RECURSIVE sum_scalars(_)
sum_scalars(ss) ==
    IF ss = <<>> THEN 0 ELSE scalar_add(Head(ss), sum_scalars(Tail(ss)))

secp256k1_musig_partial_sig_agg(session, partial_sigs) ==
    [ret |-> 1,
     sig64 |-> [r |-> session.fin_nonce,
                s |-> scalar_add(session.s_part, sum_scalars(partial_sigs))]]

\* a signature aggregation without the check for an empty list
Session_partial_sig_agg_unchecked(self, partial_sigs) ==
    LET r == secp256k1_musig_partial_sig_agg(self, partial_sigs)
    IN  IF r.ret = 0
        THEN Panic("Impossible to construct invalid(not well-typed) partial signatures")
        ELSE Returned(r.sig64)

\* a signature aggregation that passed one signature too few to the library
Session_partial_sig_agg_short(self, partial_sigs) ==
    IF partial_sigs = <<>>
    THEN Panic("Cannot aggregate an empty slice of partial signatures")
    ELSE LET r == secp256k1_musig_partial_sig_agg(self,
                      IF Len(partial_sigs) = 1 THEN partial_sigs
                      ELSE SubSeq(partial_sigs, 1, Len(partial_sigs) - 1))
         IN  IF r.ret = 0
             THEN Panic("Impossible to construct invalid(not well-typed) partial signatures")
             ELSE Returned(r.sig64)

Session_partial_sig_agg(self, partial_sigs) ==
    IF partial_sigs = <<>>
    THEN Panic("Cannot aggregate an empty slice of partial signatures")
    ELSE LET r == secp256k1_musig_partial_sig_agg(self, partial_sigs)
         IN  IF r.ret = 0
             THEN Panic("Impossible to construct invalid(not well-typed) partial signatures")
             ELSE Returned(r.sig64)

(***************************************************************************)
(* schnorr::verify (single-signer verification) and AggregatedSignature    *)
(***************************************************************************)
schnorr_Signature_from_byte_array(bytes) == bytes

schnorr_verify(sig, message, pubkey) ==
    LET e == tagged_hash(TagChallenge, <<sig.r, pubkey, message>>)
        R == ge_add(ecmult(sig.s, Generator), ge_neg(ecmult(e, lift_x(pubkey))))
    IN  IF ~ge_is_infinity(R) /\ ~has_odd_y(R) /\ x_only_public_key(R) = sig.r
        THEN "Ok" ELSE "Err"

AggregatedSignature_assume_valid(self) == schnorr_Signature_from_byte_array(self)

\* Ok(sig) or Err(Error::IncorrectSignature)
\* a verification that dropped the result of the signature check
AggregatedSignature_verify_unchecked(self, aggregate_key, message) ==
    [ok |-> TRUE, sig |-> schnorr_Signature_from_byte_array(self), err |-> ""]

AggregatedSignature_verify(self, aggregate_key, message) ==
    LET sig == schnorr_Signature_from_byte_array(self)
    IN  IF schnorr_verify(sig, message, aggregate_key) = "Ok"
        THEN [ok |-> TRUE, sig |-> sig, err |-> ""]
        ELSE [ok |-> FALSE, sig |-> [r |-> 0, s |-> 0], err |-> "IncorrectSignature"]

(***************************************************************************)
(* The portable form of a PublicNonce: two compressed points, each a tag   *)
(* for the parity of y and the x coordinate.                               *)
(***************************************************************************)
Ok(x) == [ok |-> TRUE, val |-> x, err |-> ""]
Err(e) == [ok |-> FALSE, val |-> 0, err |-> e]

SECP256K1_TAG_PUBKEY_EVEN == 2
SECP256K1_TAG_PUBKEY_ODD == 3

AGGNONCE_SERIALIZED_SIZE == 66
PUBNONCE_SERIALIZED_SIZE == 66
PART_SIG_SERIALIZED_SIZE == 32

\* a 32-byte big-endian number; the numbers of the model fit in the last two bytes
be32(v) == [i \in 1..30 |-> 0] \o <<v \div 256, v % 256>>

\* the number of 32 big-endian bytes; `high` when it does not fit in two bytes
\* (it is then larger than every coordinate and scalar of the model)
be32_decode(b) ==
    [high |-> \E i \in 1..30 : b[i] # 0, v |-> b[31] * 256 + b[32]]

ge_serialize(P) ==
    <<IF has_odd_y(P) THEN SECP256K1_TAG_PUBKEY_ODD ELSE SECP256K1_TAG_PUBKEY_EVEN>>
        \o be32(x_only_public_key(P))

\* fails on an unknown tag and on an x that is no coordinate of a point
ge_parse(in33) ==
    LET x == be32_decode(SubSeq(in33, 2, 33))
    IN  IF /\ in33[1] \in {SECP256K1_TAG_PUBKEY_EVEN, SECP256K1_TAG_PUBKEY_ODD}
           /\ ~x.high
           /\ x.v \in 1..((GroupOrder - 1) \div 2)
        THEN Some(IF in33[1] = SECP256K1_TAG_PUBKEY_ODD THEN ge_neg(lift_x(x.v))
                  ELSE lift_x(x.v))
        ELSE None

secp256k1_musig_pubnonce_serialize(nonce) == ge_serialize(nonce.R1) \o ge_serialize(nonce.R2)

secp256k1_musig_pubnonce_parse(in66) ==
    LET p1 == ge_parse(SubSeq(in66, 1, 33))
        p2 == ge_parse(SubSeq(in66, 34, 66))
    IN  IF p1.some /\ p2.some
        THEN [ret |-> 1, nonce |-> [R1 |-> p1.v, R2 |-> p2.v]]
        ELSE [ret |-> 0, nonce |-> [R1 |-> 0, R2 |-> 0]]

PublicNonce_serialize(self) == secp256k1_musig_pubnonce_serialize(self)

\* the slip of testing the C result the wrong way round
PublicNonce_from_byte_array_inverted(data) ==
    LET r == secp256k1_musig_pubnonce_parse(data)
    IN  IF r.ret # 0 THEN Err("MalformedArg") ELSE Ok(r.nonce)

PublicNonce_from_byte_array(data) ==
    LET r == secp256k1_musig_pubnonce_parse(data)
    IN  IF r.ret = 0 THEN Err("MalformedArg") ELSE Ok(r.nonce)

\* the aggregated nonce has the shape of a public nonce
secp256k1_musig_aggnonce_serialize(nonce) == ge_serialize(nonce.R1) \o ge_serialize(nonce.R2)

secp256k1_musig_aggnonce_parse(in66) ==
    LET p1 == ge_parse(SubSeq(in66, 1, 33))
        p2 == ge_parse(SubSeq(in66, 34, 66))
    IN  IF p1.some /\ p2.some
        THEN [ret |-> 1, nonce |-> [R1 |-> p1.v, R2 |-> p2.v]]
        ELSE [ret |-> 0, nonce |-> [R1 |-> 0, R2 |-> 0]]

AggregatedNonce_serialize(self) == secp256k1_musig_aggnonce_serialize(self)

AggregatedNonce_from_byte_array(data) ==
    LET r == secp256k1_musig_aggnonce_parse(data)
    IN  IF r.ret = 0 THEN Err("MalformedArg") ELSE Ok(r.nonce)

\* a partial signature is a scalar; parsing fails on a number that is not below
\* the group order
secp256k1_musig_partial_sig_serialize(sig) == be32(sig)

secp256k1_musig_partial_sig_parse(in32) ==
    LET x == be32_decode(in32)
    IN  IF x.high \/ x.v >= GroupOrder THEN [ret |-> 0, sig |-> 0]
        ELSE [ret |-> 1, sig |-> x.v]

PartialSignature_serialize(self) == secp256k1_musig_partial_sig_serialize(self)

PartialSignature_from_byte_array(data) ==
    LET r == secp256k1_musig_partial_sig_parse(data)
    IN  IF r.ret = 0 THEN Err("MalformedArg") ELSE Ok(r.sig)

(***************************************************************************)
(* The hex text form: LowerHex / Display print the serialized bytes, two   *)
(* lowercase digits a byte; FromStr decodes with the crate's from_hex,     *)
(* which takes digits of either case and fails on a string of odd length,  *)
(* on one longer than the buffer and on any other character.  A string is  *)
(* a sequence of characters.                                               *)
(***************************************************************************)
HexLower == <<"0", "1", "2", "3", "4", "5", "6", "7", "8", "9", "a", "b", "c", "d", "e", "f">>

HexUpper == <<"0", "1", "2", "3", "4", "5", "6", "7", "8", "9", "A", "B", "C", "D", "E", "F">>

\* write!(f, "{:02x}", b)
fmt_02x(b) == <<HexLower[(b \div 16) + 1], HexLower[(b % 16) + 1]>>

RECURSIVE LowerHex_fmt(_)
LowerHex_fmt(bytes) ==
    IF bytes = <<>> THEN <<>>
    ELSE fmt_02x(Head(bytes)) \o LowerHex_fmt(Tail(bytes))

hex_digit(c) ==
    IF \E i \in 1..16 : HexLower[i] = c
    THEN Some((CHOOSE i \in 1..16 : HexLower[i] = c) - 1)
    ELSE IF \E i \in 1..16 : HexUpper[i] = c
    THEN Some((CHOOSE i \in 1..16 : HexUpper[i] = c) - 1)
    ELSE None

\* returns [ok, n, target]: the number of bytes decoded and the buffer
from_hex(hex, target_len) ==
    IF \/ Len(hex) % 2 = 1
       \/ Len(hex) > target_len * 2
       \/ \E i \in DOMAIN hex : ~hex_digit(hex[i]).some
    THEN [ok |-> FALSE, n |-> 0, target |-> [i \in 1..target_len |-> 0]]
    ELSE [ok |-> TRUE, n |-> Len(hex) \div 2,
          target |-> [i \in 1..target_len |->
                         IF 2 * i <= Len(hex)
                         THEN 16 * hex_digit(hex[2 * i - 1]).v + hex_digit(hex[2 * i]).v
                         ELSE 0]]

PublicNonce_to_string(self) == LowerHex_fmt(PublicNonce_serialize(self))

PublicNonce_from_str(str) ==
    LET r == from_hex(str, PUBNONCE_SERIALIZED_SIZE)
    IN  IF r.ok /\ r.n = PUBNONCE_SERIALIZED_SIZE
        THEN PublicNonce_from_byte_array(r.target)
        ELSE Err("MalformedArg")

AggregatedNonce_to_string(self) == LowerHex_fmt(AggregatedNonce_serialize(self))

AggregatedNonce_from_str(str) ==
    LET r == from_hex(str, AGGNONCE_SERIALIZED_SIZE)
    IN  IF r.ok /\ r.n = AGGNONCE_SERIALIZED_SIZE
        THEN AggregatedNonce_from_byte_array(r.target)
        ELSE Err("MalformedArg")

\* the slip of printing with {:02X}
PartialSignature_to_string_upper(self) ==
    LET h == LowerHex_fmt(PartialSignature_serialize(self))
    IN  [i \in DOMAIN h |-> HexUpper[hex_digit(h[i]).v + 1]]

PartialSignature_to_string(self) == LowerHex_fmt(PartialSignature_serialize(self))

\* the slip of matching Ok(_): the number of bytes decoded is not compared
PartialSignature_from_str_any_length(str) ==
    LET r == from_hex(str, PART_SIG_SERIALIZED_SIZE)
    IN  IF r.ok
        THEN PartialSignature_from_byte_array(r.target)
        ELSE Err("MalformedArg")

PartialSignature_from_str(str) ==
    LET r == from_hex(str, PART_SIG_SERIALIZED_SIZE)
    IN  IF r.ok /\ r.n = PART_SIG_SERIALIZED_SIZE
        THEN PartialSignature_from_byte_array(r.target)
        ELSE Err("MalformedArg")

(***************************************************************************)
(* The state of one signing run: the objects the callers of the API hold.  *)
(***************************************************************************)
VARIABLES
    msg,        \* the 32-byte message of the run
    keys,       \* the key list given to KeyAggCache::new: signer i holds key keys[i]
    cache,      \* the KeyAggCache, NoCache before it is built
    nonces,     \* signer -> the SecretNonce variable the signer holds
    pubnonces,  \* signer -> the PublicNonce the signer published
    seedOf,     \* signer -> the seed its nonce pair was generated from
    exported,   \* byte arrays returned by dangerous_into_bytes
    nextId,     \* number of SecretNonce objects built by dangerous_from_bytes
    aggIn,      \* the signers whose nonces were given to AggregatedNonce::new
    aggnonce,   \* the AggregatedNonce
    session,    \* the Session
    psigs,      \* signer -> the PartialSignature the signer produced
    signLog,    \* one entry per partial_sign call that returned
    sigIn,      \* the list given to partial_sig_agg
    aggsig,     \* the AggregatedSignature
    tweakLog,   \* one entry per tweak call on the cache
    ret,        \* the last call and what it returned
    Secp256k1_init,  \* secp256k1.rs: the Once that guards secp256k1_start
    started,    \* secp256k1.rs: the library's tables: "none", "starting", "ready"
    startRuns,  \* secp256k1.rs: how many times secp256k1_start was entered
    th,         \* secp256k1.rs: thread -> where it is and what it holds
    crashed     \* secp256k1.rs: the process was killed by a fault

vars == <<msg, keys, cache, nonces, pubnonces, seedOf, exported, nextId, aggIn,
          aggnonce, session, psigs, signLog, sigIn, aggsig, ctxSeed, tweakLog, ret,
          Secp256k1_init, started, startRuns, th, crashed>>

\* the state of secp256k1.rs, which the MuSig functions leave alone
legacyVars == <<Secp256k1_init, started, startRuns, th, crashed>>

Threads == 1..NThreads

\* a thread between two calls, holding no signature
IdleThread ==
    [pc |-> "idle", op |-> "", msg |-> 0, pk |-> 0, nonce |-> 0,
     sig |-> [der |-> FALSE, r |-> 0, s |-> 0], recid |-> 0,
     held |-> FALSE, signed |-> 0, clean |-> FALSE, res |-> ""]

Msgs == 0..MaxMsg

Seeds == 0..MaxSeed

Signers == 1..MaxSigners

SeqsUpTo(S, n) == UNION {[1..k -> S] : k \in 0..n}

NoNonce == [st |-> "none", id |-> 0, origin |-> "", val |-> ZeroedSecNonce]

Panicked == ret.panic # ""

Init ==
    /\ msg \in Msgs
    /\ keys = <<>>
    /\ cache = NoCache
    /\ nonces = [i \in Signers |-> NoNonce]
    /\ pubnonces = [i \in Signers |-> None]
    /\ seedOf = [i \in Signers |-> 0]
    /\ exported = {}
    /\ nextId = 0
    /\ aggIn = <<>>
    /\ aggnonce = None
    /\ session = None
    /\ psigs = [i \in Signers |-> None]
    /\ signLog = <<>>
    /\ sigIn = <<>>
    /\ aggsig = None
    /\ ctxSeed = 0
    /\ tweakLog = <<>>
    /\ ret = [op |-> "start", panic |-> ""]
    /\ Secp256k1_init = "ONCE_INIT"
    /\ started = "none"
    /\ startRuns = 0
    /\ th = [t \in Threads |-> IdleThread]
    /\ crashed = FALSE

\* the aggregator combines the participants' keys
KeyAggNew(ks) ==
    /\ ~Panicked
    /\ cache = NoCache
    /\ LET r == KeyAggCache_new([i \in DOMAIN ks |-> PubKeyOf(ks[i])])
       IN  /\ ret' = [op |-> "KeyAggCache::new", panic |-> r.panic, n |-> Len(ks)]
           /\ IF r.panic = ""
              THEN cache' = r.val /\ keys' = ks /\ ctxSeed' = 0
              ELSE UNCHANGED <<cache, keys, ctxSeed>>
    /\ UNCHANGED <<legacyVars, tweakLog, msg, nonces, pubnonces, seedOf, exported, nextId, aggIn, aggnonce,
                   session, psigs, signLog, sigIn, aggsig>>

\* the scalar k with k*G = P (the generator of the model's group is 1)
scalar_of_point(P) == P

\* the tweaks a caller gives for an aggregate Q: zero, one, the negation of the
\* aggregate's discrete logarithm and twice that negation
TweakChoices(Q) ==
    {0, 1, scalar_negate(scalar_of_point(Q)), scalar_negate(scalar_of_point(ge_add(Q, Q)))}

\* a tweak is applied to the cache before any nonce is generated
TweakAdd(xonly, tweak) ==
    /\ ~Panicked
    /\ cache # NoCache
    /\ \A i \in Signers : nonces[i].st = "none" /\ ~pubnonces[i].some
    /\ Len(tweakLog) < MaxTweaks
    /\ LET r == IF xonly THEN pubkey_xonly_tweak_add(cache, tweak)
                ELSE pubkey_ec_tweak_add(cache, tweak)
       IN  /\ cache' = r.cache
           /\ tweakLog' = Append(tweakLog,
                  [xonly |-> xonly, tweak |-> tweak, before |-> cache, res |-> r.res])
           /\ ret' = [op |-> IF xonly THEN "pubkey_xonly_tweak_add"
                             ELSE "pubkey_ec_tweak_add",
                      panic |-> "", ok |-> r.res.ok, err |-> r.res.err]
    /\ ctxSeed' = 0
    /\ UNCHANGED <<legacyVars, msg, keys, nonces, pubnonces, seedOf, exported, nextId, aggIn, aggnonce,
                   session, psigs, signLog, sigIn, aggsig>>

PubkeyEcTweakAdd ==
    \E t \in TweakChoices(cache.data.pk) : TweakAdd(FALSE, t)

PubkeyXonlyTweakAdd ==
    \E t \in TweakChoices(x_only_public_key(cache.data.pk)) : TweakAdd(TRUE, t)

\* signer i builds a SessionSecretRand from `bytes` and generates its nonce pair
NonceGen(i, bytes, ctor) ==
    /\ ~Panicked
    /\ cache # NoCache
    /\ i \in DOMAIN keys
    /\ nonces[i].st = "none"
    /\ ~pubnonces[i].some
    /\ LET sr == IF ctor = "from_rng" THEN SessionSecretRand_from_rng(bytes)
                 ELSE SessionSecretRand_assume_unique_per_nonce_gen(bytes)
           r == IF sr.panic # "" THEN sr
                ELSE KeyAggCache_nonce_gen(cache, sr.val, PubKeyOf(keys[i]), msg, None)
       IN  /\ ret' = [op |-> "nonce_gen", panic |-> r.panic, seed |-> bytes, ctor |-> ctor]
           /\ IF r.panic = ""
              THEN /\ nonces' = [nonces EXCEPT ![i] =
                          [st |-> "live", id |-> i, origin |-> "nonce_gen",
                           val |-> r.val.sec_nonce]]
                   /\ pubnonces' = [pubnonces EXCEPT ![i] = Some(r.val.pub_nonce)]
                   /\ seedOf' = [seedOf EXCEPT ![i] = bytes]
              ELSE UNCHANGED <<nonces, pubnonces, seedOf>>
           /\ ctxSeed' = IF sr.panic # "" THEN ctxSeed
                         ELSE nonce_pair_seed(sr.val, None, None)
    /\ UNCHANGED <<legacyVars, tweakLog, msg, keys, cache, exported, nextId, aggIn, aggnonce, session,
                   psigs, signLog, sigIn, aggsig>>

\* the extra randomness a signer may add
ExtraRands == {None, Some(1), Some(3)}

\* signer i generates its nonce pair with new_nonce_pair, with or without its
\* secret key and extra randomness
NewNoncePair(i, bytes, with_key, extra_rand) ==
    /\ ~Panicked
    /\ cache # NoCache
    /\ i \in DOMAIN keys
    /\ nonces[i].st = "none"
    /\ ~pubnonces[i].some
    /\ LET sr == SessionSecretRand_assume_unique_per_nonce_gen(bytes)
           sec_key == IF with_key THEN Some(SecretKey(keys[i])) ELSE None
           r == IF sr.panic # "" THEN sr
                ELSE new_nonce_pair(sr.val, Some(cache), sec_key, PubKeyOf(keys[i]),
                                    Some(msg), extra_rand)
       IN  /\ ret' = [op |-> "new_nonce_pair", panic |-> r.panic, seed |-> bytes,
                      signer |-> i, sec_key |-> sec_key, extra_rand |-> extra_rand,
                      ctx |-> ctxSeed]
           /\ IF r.panic = ""
              THEN /\ nonces' = [nonces EXCEPT ![i] =
                          [st |-> "live", id |-> i, origin |-> "nonce_gen",
                           val |-> r.val.sec_nonce]]
                   /\ pubnonces' = [pubnonces EXCEPT ![i] = Some(r.val.pub_nonce)]
                   /\ seedOf' = [seedOf EXCEPT ![i] = bytes]
              ELSE UNCHANGED <<nonces, pubnonces, seedOf>>
           /\ ctxSeed' = IF sr.panic # "" THEN ctxSeed
                         ELSE nonce_pair_seed(sr.val, sec_key, extra_rand)
    /\ UNCHANGED <<legacyVars, tweakLog, msg, keys, cache, exported, nextId, aggIn, aggnonce, session,
                   psigs, signLog, sigIn, aggsig>>

\* the points peers put into the public nonces they send
CraftedPoints ==
    {1, 2, GroupOrder - 1, (GroupOrder + 1) \div 2, (GroupOrder - 1) \div 2}

\* the byte strings that arrive as public nonces: well-formed ones and two
\* malformed ones (an unknown tag, an x that is no coordinate)
NonceBytes ==
    {PublicNonce_serialize([R1 |-> a, R2 |-> b]) : a, b \in CraftedPoints}
        \cup {<<4>> \o be32(1) \o ge_serialize(1), ge_serialize(1) \o <<3>> \o be32(0)}

\* the aggregator receives the bytes of the public nonce of peer i and parses them
ReceiveNonce(i, data) ==
    /\ ~Panicked
    /\ ~pubnonces[i].some
    /\ ~aggnonce.some
    /\ LET r == PublicNonce_from_byte_array(data)
       IN  /\ ret' = [op |-> "PublicNonce::from_byte_array", panic |-> "",
                      ok |-> r.ok, err |-> r.err]
           /\ IF r.ok
              THEN pubnonces' = [pubnonces EXCEPT ![i] = Some(r.val)]
              ELSE UNCHANGED pubnonces
    /\ UNCHANGED <<legacyVars, tweakLog, msg, keys, cache, nonces, seedOf, exported, nextId, aggIn, aggnonce,
                   session, psigs, signLog, sigIn, aggsig, ctxSeed>>

\* signer i exports the bytes of its secret nonce; the SecretNonce is moved
DangerousIntoBytes(i) ==
    /\ ~Panicked
    /\ nonces[i].st = "live"
    /\ Cardinality(exported) < MaxExports
    /\ exported' = exported \cup {SecretNonce_dangerous_into_bytes(nonces[i].val)}
    /\ nonces' = [nonces EXCEPT ![i].st = "moved"]
    /\ ret' = [op |-> "dangerous_into_bytes", panic |-> ""]
    /\ UNCHANGED <<legacyVars, tweakLog, msg, keys, cache, pubnonces, seedOf, nextId, aggIn, aggnonce,
                   session, psigs, signLog, sigIn, aggsig, ctxSeed>>

\* signer i rebuilds a SecretNonce from exported bytes
DangerousFromBytes(i, array) ==
    /\ ~Panicked
    /\ i \in DOMAIN keys
    /\ array \in exported
    /\ nonces[i].st = "moved"
    /\ nextId < MaxImports
    /\ nonces' = [nonces EXCEPT ![i] =
           [st |-> "live", id |-> MaxSigners + nextId + 1, origin |-> "from_bytes",
            val |-> SecretNonce_dangerous_from_bytes(array)]]
    /\ nextId' = nextId + 1
    /\ ret' = [op |-> "dangerous_from_bytes", panic |-> ""]
    /\ UNCHANGED <<legacyVars, tweakLog, msg, keys, cache, pubnonces, seedOf, exported, aggIn, aggnonce,
                   session, psigs, signLog, sigIn, aggsig, ctxSeed>>

\* the aggregator combines the public nonces of the signers listed in idx
AggNonceNew(idx) ==
    /\ ~Panicked
    /\ ~aggnonce.some
    /\ \A i \in DOMAIN keys : pubnonces[i].some
    /\ \A k \in DOMAIN idx : pubnonces[idx[k]].some
    /\ LET r == AggregatedNonce_new([k \in DOMAIN idx |-> pubnonces[idx[k]].v])
       IN  /\ ret' = [op |-> "AggregatedNonce::new", panic |-> r.panic, n |-> Len(idx)]
           /\ IF r.panic = ""
              THEN aggnonce' = Some(r.val) /\ aggIn' = idx /\ ctxSeed' = 0
              ELSE UNCHANGED <<aggnonce, aggIn, ctxSeed>>
    /\ UNCHANGED <<legacyVars, tweakLog, msg, keys, cache, nonces, pubnonces, seedOf, exported, nextId,
                   session, psigs, signLog, sigIn, aggsig>>

\* the session is built from the cache, the aggregated nonce and the message
SessionNew ==
    /\ ~Panicked
    /\ aggnonce.some
    /\ ~session.some
    /\ LET r == Session_new(cache, aggnonce.v, msg)
       IN  /\ ret' = [op |-> "Session::new", panic |-> r.panic]
           /\ IF r.panic = ""
              THEN session' = Some(r.val) /\ ctxSeed' = 0
              ELSE UNCHANGED <<session, ctxSeed>>
    /\ UNCHANGED <<legacyVars, tweakLog, msg, keys, cache, nonces, pubnonces, seedOf, exported, nextId,
                   aggIn, aggnonce, psigs, signLog, sigIn, aggsig>>

\* a call that clears the session as it clears the secret nonce
Session_as_ptr_cleared(self) ==
    [fin_nonce_parity |-> FALSE, fin_nonce |-> 0, noncecoef |-> 0, challenge |-> 0,
     s_part |-> 0]

\* partial_sign, partial_verify and partial_sig_agg take &self and hand the
\* library a const pointer to the session: what the caller holds after the call
Session_as_ptr(self) == self

\* a partial_sign that borrowed the secret nonce instead of taking it
MoveSecretNonce_borrowed(slot) == slot

\* what is left in the caller's SecretNonce variable by a call that takes it
MoveSecretNonce(slot) == [slot EXCEPT !.st = "moved"]

\* signer i signs with the secret nonce it holds and the key pair of key k
PartialSign(i, k) ==
    /\ ~Panicked
    /\ session.some
    /\ nonces[i].st = "live"
    /\ Len(signLog) < MaxSigns
    /\ LET kp == Keypair_from_secret_key(SecretKey(k))
           r == Session_partial_sign(session.v, nonces[i].val, kp, cache)
       IN  /\ ret' = [op |-> "partial_sign", panic |-> r.panic, signer |-> i, key |-> k]
           /\ nonces' = [nonces EXCEPT ![i] = MoveSecretNonce(nonces[i])]
           /\ IF r.panic = ""
              THEN /\ psigs' = [psigs EXCEPT ![i] = Some(r.val)]
                   /\ signLog' = Append(signLog,
                          [signer |-> i, id |-> nonces[i].id, origin |-> nonces[i].origin,
                           val |-> nonces[i].val, sig |-> r.val])
                   /\ ctxSeed' = 0
              ELSE UNCHANGED <<psigs, signLog, ctxSeed>>
    /\ session' = Some(Session_as_ptr(session.v))
    /\ UNCHANGED <<legacyVars, tweakLog, msg, keys, cache, pubnonces, seedOf, exported, nextId, aggIn,
                   aggnonce, sigIn, aggsig>>

\* a partial signature of signer i is checked against the public nonce of
\* signer j and the public key of signer k
PartialVerify(i, j, k) ==
    /\ ~Panicked
    /\ session.some
    /\ psigs[i].some
    /\ j \in DOMAIN keys
    /\ k \in DOMAIN keys
    /\ ret' = [op |-> "partial_verify", panic |-> "", sig |-> i, nonce |-> j, key |-> k,
               ok |-> Session_partial_verify(session.v, cache, psigs[i].v,
                                             pubnonces[j].v, PubKeyOf(keys[k]))]
    /\ ctxSeed' = 0
    /\ session' = Some(Session_as_ptr(session.v))
    /\ UNCHANGED <<legacyVars, tweakLog, msg, keys, cache, nonces, pubnonces, seedOf, exported, nextId, aggIn,
                   aggnonce, psigs, signLog, sigIn, aggsig>>

\* the partial signature a peer sends in for signer e.signer: the signer's own,
\* or one that is off by e.delta
SentSig(e) == scalar_add(psigs[e.signer].v, e.delta)

Deltas == {0, 1, GroupOrder - 1}

SigEntries == [signer : Signers, delta : Deltas]

OwnSigEntries == [signer : Signers, delta : {0}]

\* the partial signatures listed in sigs are aggregated
PartialSigAgg(sigs) ==
    /\ ~Panicked
    /\ session.some
    /\ ~aggsig.some
    /\ \A i \in DOMAIN keys : psigs[i].some
    /\ \A n \in DOMAIN sigs : sigs[n].signer \in DOMAIN keys
    /\ LET r == Session_partial_sig_agg(session.v, [n \in DOMAIN sigs |-> SentSig(sigs[n])])
       IN  /\ ret' = [op |-> "partial_sig_agg", panic |-> r.panic, n |-> Len(sigs)]
           /\ IF r.panic = ""
              THEN aggsig' = Some(r.val) /\ sigIn' = sigs
              ELSE UNCHANGED <<aggsig, sigIn>>
    /\ session' = Some(Session_as_ptr(session.v))
    /\ UNCHANGED <<legacyVars, tweakLog, msg, keys, cache, nonces, pubnonces, seedOf, exported, nextId, aggIn,
                   aggnonce, psigs, signLog, ctxSeed>>

\* the aggregated signature is verified against the aggregate key and message m
Verify(m) ==
    /\ ~Panicked
    /\ aggsig.some
    /\ LET r == AggregatedSignature_verify(aggsig.v, agg_pk(cache), m)
       IN  ret' = [op |-> "verify", panic |-> "", msg |-> m, ok |-> r.ok, err |-> r.err,
                   sig |-> r.sig,
                   assume_valid |-> AggregatedSignature_assume_valid(aggsig.v),
                   assumed |-> schnorr_verify(AggregatedSignature_assume_valid(aggsig.v),
                                              m, agg_pk(cache))]
    /\ UNCHANGED <<legacyVars, tweakLog, msg, keys, cache, nonces, pubnonces, seedOf, exported, nextId, aggIn,
                   aggnonce, session, psigs, signLog, sigIn, aggsig, ctxSeed>>

Next ==
    \/ \E ks \in SeqsUpTo(KeyIds, MaxSigners) : KeyAggNew(ks)
    \/ \E i \in Signers, b \in Seeds, c \in {"from_rng", "assume_unique"} : NonceGen(i, b, c)
    \/ \E idx \in SeqsUpTo(Signers, MaxSigners) : AggNonceNew(idx)
    \/ SessionNew
    \/ \E i \in Signers, k \in KeyIds : PartialSign(i, k)
    \/ \E i, j, k \in Signers : PartialVerify(i, j, k)
    \/ \E sigs \in SeqsUpTo(OwnSigEntries, MaxSigners) : PartialSigAgg(sigs)
    \/ \E m \in Msgs : Verify(m)

Spec == Init /\ [][Next]_vars

(***************************************************************************)
(* The same run with peers that may send in partial signatures that are    *)
(* off by a delta (and without the dangerous export of secret nonces).     *)
(***************************************************************************)
NextForged ==
    \/ \E ks \in SeqsUpTo(KeyIds, MaxSigners) : KeyAggNew(ks)
    \/ \E i \in Signers, b \in Seeds \ {0} : NonceGen(i, b, "assume_unique")
    \/ \E idx \in SeqsUpTo(Signers, MaxSigners) : AggNonceNew(idx)
    \/ SessionNew
    \/ \E i \in DOMAIN keys : PartialSign(i, keys[i])
    \/ \E i, j, k \in Signers : PartialVerify(i, j, k)
    \/ \E sigs \in SeqsUpTo(SigEntries, MaxSigners) : PartialSigAgg(sigs)
    \/ \E m \in Msgs : Verify(m)

SpecForged == Init /\ [][NextForged]_vars

(***************************************************************************)
(* The signers' side of the run when secret nonces are also exported with  *)
(* dangerous_into_bytes and rebuilt with dangerous_from_bytes.             *)
(***************************************************************************)
NextDangerous ==
    \/ \E ks \in SeqsUpTo(KeyIds, MaxSigners) : KeyAggNew(ks)
    \/ \E i \in Signers, b \in Seeds \ {0} : NonceGen(i, b, "assume_unique")
    \/ \E i \in Signers : DangerousIntoBytes(i)
    \/ \E i \in Signers, a \in exported : DangerousFromBytes(i, a)
    \/ \E idx \in SeqsUpTo(Signers, MaxSigners) : AggNonceNew(idx)
    \/ SessionNew
    \/ \E i \in DOMAIN keys : PartialSign(i, keys[i])

SpecDangerous == Init /\ [][NextDangerous]_vars

(***************************************************************************)
(* The aggregator's side of a nonce round: public nonces arrive as bytes   *)
(* from the peers and are combined.                                        *)
(***************************************************************************)
NextNonces ==
    \/ \E i \in Signers, data \in NonceBytes : ReceiveNonce(i, data)
    \/ \E idx \in SeqsUpTo(Signers, MaxSigners) : AggNonceNew(idx)

SpecNonces == Init /\ [][NextNonces]_vars

(***************************************************************************)
(* The honest run on a cache that is tweaked after it is built.            *)
(***************************************************************************)
NextTweaked ==
    \/ \E ks \in SeqsUpTo(KeyIds, MaxSigners) : KeyAggNew(ks)
    \/ cache # NoCache /\ PubkeyEcTweakAdd
    \/ cache # NoCache /\ PubkeyXonlyTweakAdd
    \/ \E i \in Signers, b \in Seeds \ {0} : NonceGen(i, b, "assume_unique")
    \/ AggNonceNew([i \in DOMAIN keys |-> i])
    \/ SessionNew
    \/ \E i \in DOMAIN keys : PartialSign(i, keys[i])
    \/ PartialSigAgg([i \in DOMAIN keys |-> [signer |-> i, delta |-> 0]])
    \/ \E m \in Msgs : Verify(m)

SpecTweaked == Init /\ [][NextTweaked]_vars

(***************************************************************************)
(* The honest run with nonce pairs from new_nonce_pair, with and without   *)
(* the secret key and the extra randomness.                                *)
(***************************************************************************)
NextSeeded ==
    \/ \E ks \in SeqsUpTo(KeyIds, MaxSigners) : KeyAggNew(ks)
    \/ \E i \in Signers, b \in Seeds, k \in BOOLEAN, e \in ExtraRands : NewNoncePair(i, b, k, e)
    \/ AggNonceNew([i \in DOMAIN keys |-> i])
    \/ SessionNew
    \/ \E i \in DOMAIN keys : PartialSign(i, keys[i])
    \/ PartialSigAgg([i \in DOMAIN keys |-> [signer |-> i, delta |-> 0]])
    \/ \E m \in Msgs : Verify(m)

SpecSeeded == Init /\ [][NextSeeded]_vars

(***************************************************************************)
(* The codec on its own: values are serialized and printed, and bytes and  *)
(* strings that come from a peer are parsed.  Each call is recorded in     *)
(* `ret`.                                                                  *)
(***************************************************************************)
WireTypes == {"PublicNonce", "AggregatedNonce", "PartialSignature"}

\* pub enum ParseError { MalformedArg }
ParseError == {"MalformedArg"}

\* the formatting and parsing traits each type of the wire table implements
\* (AggregatedSignature has the derived traits only)
WireImpls ==
    [PublicNonce |-> {"LowerHex", "Display", "FromStr"},
     AggregatedNonce |-> {"LowerHex", "Display", "FromStr"},
     PartialSignature |-> {"LowerHex", "Display", "FromStr"},
     AggregatedSignature |-> {"Debug", "Copy", "Clone", "PartialEq", "Eq", "PartialOrd",
                              "Ord", "Hash"}]

Wire_size(T) ==
    CASE T = "PublicNonce" -> PUBNONCE_SERIALIZED_SIZE
      [] T = "AggregatedNonce" -> AGGNONCE_SERIALIZED_SIZE
      [] T = "PartialSignature" -> PART_SIG_SERIALIZED_SIZE

Wire_serialize(T, x) ==
    CASE T = "PublicNonce" -> PublicNonce_serialize(x)
      [] T = "AggregatedNonce" -> AggregatedNonce_serialize(x)
      [] T = "PartialSignature" -> PartialSignature_serialize(x)

Wire_from_byte_array(T, data) ==
    CASE T = "PublicNonce" -> PublicNonce_from_byte_array(data)
      [] T = "AggregatedNonce" -> AggregatedNonce_from_byte_array(data)
      [] T = "PartialSignature" -> PartialSignature_from_byte_array(data)

Wire_to_string(T, x) ==
    CASE T = "PublicNonce" -> PublicNonce_to_string(x)
      [] T = "AggregatedNonce" -> AggregatedNonce_to_string(x)
      [] T = "PartialSignature" -> PartialSignature_to_string(x)

Wire_from_str(T, str) ==
    CASE T = "PublicNonce" -> PublicNonce_from_str(str)
      [] T = "AggregatedNonce" -> AggregatedNonce_from_str(str)
      [] T = "PartialSignature" -> PartialSignature_from_str(str)

\* points at the ends of the range, on both sides of the parity split and on
\* both sides of a byte boundary
WirePoints == {1, 256, (GroupOrder - 1) \div 2, (GroupOrder + 1) \div 2, GroupOrder - 1}

WireScalars == {0, 1, 255, 256, 4660, GroupOrder - 1}

WireValues(T) ==
    IF T = "PartialSignature" THEN WireScalars
    ELSE [R1 : WirePoints, R2 : WirePoints]

\* what a peer may send instead of a point: an unknown tag, the uncompressed
\* tag, x = 0, an x beyond the field, an x that is no coordinate
BadPoints ==
    { <<4>> \o be32(1), <<0>> \o be32(1), <<2>> \o be32(0), <<3>> \o be32(GroupOrder),
      <<2>> \o be32((GroupOrder + 1) \div 2), [i \in 1..33 |-> 0], [i \in 1..33 |-> 255],
      <<2, 1>> \o Tail(be32(1)) }

BadScalars ==
    { be32(GroupOrder), be32(GroupOrder + 1), be32(65535), [i \in 1..32 |-> 255],
      <<1>> \o Tail(be32(1)) }

WireBytes(T) ==
    {Wire_serialize(T, x) : x \in WireValues(T)}
        \cup (IF T = "PartialSignature" THEN BadScalars
              ELSE {b \o ge_serialize(1) : b \in BadPoints}
                       \cup {ge_serialize(GroupOrder - 1) \o b : b \in BadPoints})

to_uppercase(str) == [i \in DOMAIN str |-> HexUpper[hex_digit(str[i]).v + 1]]

\* what a peer may send instead of the hex string h
BadStrings(h) ==
    { <<>>, SubSeq(h, 1, Len(h) - 1), SubSeq(h, 1, Len(h) - 2), SubSeq(h, 3, Len(h)),
      h \o <<"0">>, h \o <<"0", "0">>, <<"0", "x">> \o h, <<"0", "x">> \o SubSeq(h, 3, Len(h)),
      [h EXCEPT ![Len(h)] = "g"], [h EXCEPT ![1] = " "], [h EXCEPT ![2] = "-"] }

WireStrings(T) ==
    LET hex == {LowerHex_fmt(b) : b \in WireBytes(T)}
    IN  hex \cup {to_uppercase(h) : h \in hex}
            \cup BadStrings(LowerHex_fmt(Wire_serialize(T,
                      IF T = "PartialSignature" THEN 255
                      ELSE [R1 |-> 1, R2 |-> (GroupOrder - 1) \div 2])))

WireFrame ==
    UNCHANGED <<legacyVars, tweakLog, msg, keys, cache, nonces, pubnonces, seedOf, exported, nextId, aggIn,
                aggnonce, session, psigs, signLog, sigIn, aggsig, ctxSeed>>

WireSerialize(T, x) ==
    /\ ret' = [op |-> "serialize", panic |-> "", type |-> T, self |-> x,
               bytes |-> Wire_serialize(T, x)]
    /\ WireFrame

WireFromByteArray(T, data) ==
    /\ ret' = [op |-> "from_byte_array", panic |-> "", type |-> T, data |-> data,
               res |-> Wire_from_byte_array(T, data)]
    /\ WireFrame

WireToString(T, x) ==
    /\ ret' = [op |-> "to_string", panic |-> "", type |-> T, self |-> x,
               str |-> Wire_to_string(T, x)]
    /\ WireFrame

WireFromStr(T, str) ==
    /\ ret' = [op |-> "from_str", panic |-> "", type |-> T, str |-> str,
               res |-> Wire_from_str(T, str)]
    /\ WireFrame

NextWire ==
    \/ \E T \in WireTypes : \E x \in WireValues(T) : WireSerialize(T, x)
    \/ \E T \in WireTypes : \E data \in WireBytes(T) : WireFromByteArray(T, data)
    \/ \E T \in WireTypes : \E x \in WireValues(T) : WireToString(T, x)
    \/ \E T \in WireTypes : \E str \in WireStrings(T) : WireFromStr(T, str)

SpecWire == Init /\ [][NextWire]_vars

(***************************************************************************)
(* secp256k1.rs: the single-signer functions sign, sign_compact,           *)
(* recover_compact, verify and verify_raw, and the one-time start of the   *)
(* library behind init().  The C functions are external: ECDSA over the    *)
(* group of the model, the message taken as a number.                      *)
(***************************************************************************)
RECURSIVE scalar_pow(_, _)
scalar_pow(a, e) ==
    IF e = 0 THEN 1
    ELSE LET h == scalar_pow(a, e \div 2)
         IN  IF e % 2 = 0 THEN scalar_mul(h, h) ELSE scalar_mul(scalar_mul(h, h), a)

scalar_inverse(a) == scalar_pow(a, GroupOrder - 2)

\* returns [ret, sig, recid]; ret = 0 on a nonce that gives no signature
secp256k1_ecdsa_sign(message, seckey, nonce) ==
    LET R == ecmult(nonce, Generator)
        r == x_only_public_key(R)
        s == scalar_mul(scalar_inverse(nonce % GroupOrder),
                        scalar_add(message % GroupOrder, scalar_mul(r, seckey)))
    IN  [ret |-> IF nonce % GroupOrder = 0 \/ r = 0 \/ s = 0 THEN 0 ELSE 1,
         sig |-> [der |-> TRUE, r |-> r, s |-> s],
         recid |-> IF has_odd_y(R) THEN 1 ELSE 0]

secp256k1_ecdsa_sign_compact(message, seckey, nonce) == secp256k1_ecdsa_sign(message, seckey, nonce)

\* returns [ret, pubkey]
secp256k1_ecdsa_recover_compact(message, sig, recid) ==
    LET R == IF recid = 1 THEN ge_neg(lift_x(sig.r)) ELSE lift_x(sig.r)
        pk == ecmult(scalar_inverse(sig.r),
                     ge_add(ecmult(sig.s, R), ge_neg(ecmult(message % GroupOrder, Generator))))
    IN  [ret |-> IF sig.r = 0 \/ sig.s = 0 \/ ge_is_infinity(pk) THEN 0 ELSE 1,
         pubkey |-> pk]

\* 1: valid, 0: not valid, -1: bad public key, -2: signature that does not parse
secp256k1_ecdsa_verify(message, sig, pubkey) ==
    IF ge_is_infinity(pubkey) THEN -1
    ELSE IF ~sig.der THEN -2
    ELSE IF sig.r = 0 \/ sig.s = 0 THEN 0
    ELSE LET w == scalar_inverse(sig.s)
             R == ge_add(ecmult(scalar_mul(message % GroupOrder, w), Generator),
                         ecmult(scalar_mul(sig.r, w), pubkey))
         IN  IF ~ge_is_infinity(R) /\ x_only_public_key(R) = sig.r THEN 1 ELSE 0

sign(message, sk, nonce) ==
    LET c == secp256k1_ecdsa_sign(message, sk, nonce)
    IN  IF c.ret # 1 THEN Err("InvalidNonce") ELSE Ok([sig |-> c.sig, recid |-> 0])

sign_compact(message, sk, nonce) ==
    LET c == secp256k1_ecdsa_sign_compact(message, sk, nonce)
    IN  IF c.ret # 1 THEN Err("InvalidNonce") ELSE Ok([sig |-> c.sig, recid |-> c.recid])

recover_compact(message, sig, recid) ==
    LET c == secp256k1_ecdsa_recover_compact(message, sig, recid)
    IN  IF c.ret # 1 THEN Err("InvalidSignature") ELSE Ok(c.pubkey)

\* a verification that reports every outcome of the library as success
verify_raw_unchecked(message, sig, pk) == Ok(0)

\* the part of verify_raw after init()
verify_raw(message, sig, pk) ==
    LET res == secp256k1_ecdsa_verify(message, sig, pk)
    IN  CASE res = 1 -> Ok(0)
          [] res = 0 -> Err("IncorrectSignature")
          [] res = -1 -> Err("InvalidPublicKey")
          [] res = -2 -> Err("InvalidSignature")

verify(message, sig, pk) == verify_raw(message, sig, pk)

\* Once::doit: what the caller does in each state of the Once
Once_doit(once) ==
    CASE once = "ONCE_INIT" -> "run"
      [] once = "RUNNING" -> "wait"
      [] once = "DONE" -> "return"

\* an init() that calls secp256k1_start without the Once
init_unguarded(once) == "run"

init(once) == Once_doit(once)

\* the functions that call init() before their library call
CallsInit == {"init", "verify", "verify_raw"}

LegacyMsgs == {0, 1}

LegacyNonces == {0, GroupOrder - 7}

LegacyFrame ==
    UNCHANGED <<tweakLog, msg, keys, cache, nonces, pubnonces, seedOf, exported, nextId, aggIn,
                aggnonce, session, psigs, signLog, sigIn, aggsig, ctxSeed, ret>>

\* thread t calls one of the functions
Call(t, op, m, pk, nonce) ==
    /\ ~crashed
    /\ th[t].pc = "idle"
    /\ th' = [th EXCEPT ![t].pc = IF op \in CallsInit THEN "doit" ELSE "lib",
                        ![t].op = op, ![t].msg = m, ![t].pk = pk, ![t].nonce = nonce,
                        ![t].res = ""]
    /\ UNCHANGED <<Secp256k1_init, started, startRuns, crashed>>
    /\ LegacyFrame

CallInit(t) == Call(t, "init", 0, 0, 0)

CallSign(t, m, nonce) == Call(t, "sign", m, 0, nonce)

CallSignCompact(t, m, nonce) == Call(t, "sign_compact", m, 0, nonce)

CallRecoverCompact(t, m) == th[t].held /\ Call(t, "recover_compact", m, 0, 0)

CallVerify(t, m, pk) == Call(t, "verify", m, pk, 0)

CallVerifyRaw(t, m, pk) == Call(t, "verify_raw", m, pk, 0)

\* init(): the thread reaches Secp256k1_init.doit
InitDoit(t) ==
    /\ ~crashed
    /\ th[t].pc = "doit"
    /\ LET d == init(Secp256k1_init)
       IN  /\ th' = [th EXCEPT ![t].pc = CASE d = "run" -> "start"
                                            [] d = "wait" -> "wait"
                                            [] d = "return" -> "inited"]
           /\ Secp256k1_init' = IF d = "run" THEN "RUNNING" ELSE Secp256k1_init
    /\ UNCHANGED <<started, startRuns, crashed>>
    /\ LegacyFrame

\* the closure given to doit enters ffi::secp256k1_start
StartBegin(t) ==
    /\ ~crashed
    /\ th[t].pc = "start"
    /\ startRuns < MaxStarts
    /\ startRuns' = startRuns + 1
    /\ started' = "starting"
    /\ th' = [th EXCEPT ![t].pc = "starting"]
    /\ UNCHANGED <<Secp256k1_init, crashed>>
    /\ LegacyFrame

\* secp256k1_start returns and the Once is marked done
StartEnd(t) ==
    /\ ~crashed
    /\ th[t].pc = "starting"
    /\ started' = "ready"
    /\ Secp256k1_init' = "DONE"
    /\ th' = [th EXCEPT ![t].pc = "inited"]
    /\ UNCHANGED <<startRuns, crashed>>
    /\ LegacyFrame

\* a thread that found the Once running is released when it is done
OnceWait(t) ==
    /\ ~crashed
    /\ th[t].pc = "wait"
    /\ Secp256k1_init = "DONE"
    /\ th' = [th EXCEPT ![t].pc = "inited"]
    /\ UNCHANGED <<Secp256k1_init, started, startRuns, crashed>>
    /\ LegacyFrame

\* init() returns: to the caller, or to verify_raw, which goes on to its
\* library call
InitReturn(t) ==
    /\ ~crashed
    /\ th[t].pc = "inited"
    /\ th' = [th EXCEPT ![t].pc = IF th[t].op = "init" THEN "idle" ELSE "lib",
                        ![t].res = IF th[t].op = "init" THEN "returned" ELSE ""]
    /\ UNCHANGED <<Secp256k1_init, started, startRuns, crashed>>
    /\ LegacyFrame

LegacyKey == SecretKey(1)

\* what the function of thread t returns from a library that was started
LibResult(t) ==
    LET c == th[t]
    IN  CASE c.op = "sign" -> sign(c.msg, LegacyKey, c.nonce)
          [] c.op = "sign_compact" -> sign_compact(c.msg, LegacyKey, c.nonce)
          [] c.op = "recover_compact" -> recover_compact(c.msg, c.sig, c.recid)
          [] c.op = "verify" -> verify(c.msg, c.sig, c.pk)
          [] c.op = "verify_raw" -> verify_raw(c.msg, c.sig, c.pk)

\* the thread record after its function returned r; `clean` records whether a
\* signature it holds was made by a library that was started
Returns(c, r) ==
    IF c.op \in {"sign", "sign_compact"} /\ r.ok
    THEN [c EXCEPT !.pc = "idle", !.res = "Ok", !.sig = r.val.sig, !.recid = r.val.recid,
                   !.held = TRUE, !.signed = c.msg, !.nonce = 0,
                   !.clean = (started = "ready")]
    ELSE IF c.op = "recover_compact" /\ r.ok
    THEN [c EXCEPT !.pc = "idle", !.res = "Ok", !.pk = r.val]
    ELSE [c EXCEPT !.pc = "idle", !.res = IF r.ok THEN "Ok" ELSE r.err, !.nonce = 0]

\* what a library call may return when the library's tables are not there:
\* the read is undefined
UndefinedResults(op) ==
    CASE op \in {"sign", "sign_compact"} ->
             {[ok |-> FALSE, err |-> "InvalidNonce",
               val |-> [sig |-> [der |-> FALSE, r |-> 0, s |-> 0], recid |-> 0]],
              [ok |-> TRUE, err |-> "",
               val |-> [sig |-> [der |-> TRUE, r |-> 1, s |-> 1], recid |-> 0]]}
      [] op = "recover_compact" -> {Err("InvalidSignature"), Ok(1)}
      [] op \in {"verify", "verify_raw"} -> {Ok(0), Err("IncorrectSignature")}

\* the library call of the function thread t is in
LibCall(t) ==
    /\ ~crashed
    /\ th[t].pc = "lib"
    /\ IF started = "ready"
       THEN th' = [th EXCEPT ![t] = Returns(th[t], LibResult(t))] /\ UNCHANGED crashed
       ELSE \/ crashed' = TRUE /\ UNCHANGED th
            \/ \E r \in UndefinedResults(th[t].op) :
                   th' = [th EXCEPT ![t] = Returns(th[t], r)] /\ UNCHANGED crashed
    /\ UNCHANGED <<Secp256k1_init, started, startRuns>>
    /\ LegacyFrame

NextLegacy ==
    \/ \E t \in Threads : CallInit(t)
    \/ \E t \in Threads, m \in LegacyMsgs, k \in LegacyNonces : CallSign(t, m, k)
    \/ \E t \in Threads, m \in LegacyMsgs, k \in LegacyNonces : CallSignCompact(t, m, k)
    \/ \E t \in Threads, m \in LegacyMsgs : CallRecoverCompact(t, m)
    \/ \E t \in Threads, m \in LegacyMsgs, pk \in {0, PubKeyOf(1)} : CallVerify(t, m, pk)
    \/ \E t \in Threads, m \in LegacyMsgs : CallVerifyRaw(t, m, PubKeyOf(1))
    \/ \E t \in Threads : InitDoit(t)
    \/ \E t \in Threads : StartBegin(t)
    \/ \E t \in Threads : StartEnd(t)
    \/ \E t \in Threads : OnceWait(t)
    \/ \E t \in Threads : InitReturn(t)
    \/ \E t \in Threads : LibCall(t)

SpecLegacy == Init /\ [][NextLegacy]_vars

(***************************************************************************)
(* Sessions from any aggregated nonce: the aggregator combines the public  *)
(* nonces it received, or receives the aggregated nonce itself as bytes    *)
(* from a peer, who may have picked it so that the final nonce vanishes.   *)
(***************************************************************************)
\* the final nonce of a session: R1 + b*R2 for the nonce coefficient b
EffectiveNonce(key_agg_cache, agg_nonce, m) ==
    LET b == tagged_hash(TagNonceCoef,
                         <<agg_nonce.R1, agg_nonce.R2,
                           x_only_public_key(key_agg_cache.data.pk), m>>)
    IN  ge_add(agg_nonce.R1, ecmult(b, agg_nonce.R2))

\* the aggregated nonces with second point G whose final nonce, for the cache
\* and the message of the run, is the point at infinity
DegenerateAggNonces ==
    {n \in [R1 : 1..(GroupOrder - 1), R2 : {Generator}] :
        ge_is_infinity(EffectiveNonce(cache, n, msg))}

AggNonceBytes ==
    {AggregatedNonce_serialize(n) :
        n \in DegenerateAggNonces \cup [R1 : {1, GroupOrder - 1}, R2 : {1, 2}]}
        \cup {<<4>> \o be32(1) \o ge_serialize(1)}

AggNonceFromBytes(data) ==
    /\ ~Panicked
    /\ ~aggnonce.some
    /\ LET r == AggregatedNonce_from_byte_array(data)
       IN  /\ ret' = [op |-> "AggregatedNonce::from_byte_array", panic |-> "",
                      ok |-> r.ok, err |-> r.err]
           /\ IF r.ok
              THEN aggnonce' = Some(r.val)
              ELSE UNCHANGED aggnonce
    /\ UNCHANGED <<legacyVars, tweakLog, msg, keys, cache, nonces, pubnonces, seedOf, exported,
                   nextId, aggIn, session, psigs, signLog, sigIn, aggsig, ctxSeed>>

NextSessions ==
    \/ \E ks \in SeqsUpTo(KeyIds, MaxSigners) : KeyAggNew(ks)
    \/ \E i \in Signers, data \in NonceBytes : cache # NoCache /\ ReceiveNonce(i, data)
    \/ cache # NoCache /\ AggNonceNew([i \in DOMAIN keys |-> i])
    \/ /\ cache # NoCache
       /\ ~aggnonce.some
       /\ \A i \in Signers : ~pubnonces[i].some
       /\ \E data \in AggNonceBytes : AggNonceFromBytes(data)
    \/ SessionNew

SpecSessions == Init /\ [][NextSessions]_vars

(***************************************************************************)
(* Signers that misuse their secret nonces: they sign with the key pair of *)
(* any key, and rebuild a SecretNonce from the all-zero bytes that a used  *)
(* nonce holds.                                                            *)
(***************************************************************************)
DangerousFromZeroBytes(i) ==
    /\ ~Panicked
    /\ i \in DOMAIN keys
    /\ nonces[i].st # "live"
    /\ nextId < MaxImports
    /\ nonces' = [nonces EXCEPT ![i] =
           [st |-> "live", id |-> MaxSigners + nextId + 1, origin |-> "from_bytes",
            val |-> SecretNonce_dangerous_from_bytes(ZeroedSecNonce)]]
    /\ nextId' = nextId + 1
    /\ ret' = [op |-> "dangerous_from_bytes", panic |-> ""]
    /\ UNCHANGED <<legacyVars, tweakLog, msg, keys, cache, pubnonces, seedOf, exported, aggIn,
                   aggnonce, session, psigs, signLog, sigIn, aggsig, ctxSeed>>

NextMisuse ==
    \/ \E ks \in SeqsUpTo(KeyIds, MaxSigners) : KeyAggNew(ks)
    \/ \E i \in Signers, b \in Seeds \ {0} : NonceGen(i, b, "assume_unique")
    \/ \E i \in Signers : DangerousFromZeroBytes(i)
    \/ AggNonceNew([i \in DOMAIN keys |-> i])
    \/ SessionNew
    \/ \E i \in Signers, k \in KeyIds : PartialSign(i, k)

SpecMisuse == Init /\ [][NextMisuse]_vars

(***************************************************************************)
(* Signers whose nonces cancel.  Nonce generation is a function of its     *)
(* inputs, so whoever holds the inputs of signer i holds i's secret nonce; *)
(* signer j takes the bytes of that nonce, negates the first scalar (and,  *)
(* with `both`, the second), rebuilds a SecretNonce for its own key with   *)
(* dangerous_from_bytes and publishes the matching public nonce.           *)
(***************************************************************************)
MirrorNonce(i, j, both) ==
    /\ ~Panicked
    /\ i \in DOMAIN keys /\ j \in DOMAIN keys /\ i # j
    /\ nonces[i].st = "live" /\ nonces[i].origin = "nonce_gen"
    /\ pubnonces[i].some
    /\ nonces[j].st = "none"
    /\ ~pubnonces[j].some
    /\ ~aggnonce.some
    /\ LET bytes == SecretNonce_dangerous_into_bytes(nonces[i].val)
           array == [magic |-> bytes.magic,
                     k1 |-> scalar_negate(bytes.k1),
                     k2 |-> IF both THEN scalar_negate(bytes.k2) ELSE bytes.k2,
                     pk |-> PubKeyOf(keys[j])]
           pub == PublicNonce_from_byte_array(PublicNonce_serialize(
                      [R1 |-> ecmult(array.k1, Generator), R2 |-> ecmult(array.k2, Generator)]))
       IN  /\ pub.ok
           /\ nonces' = [nonces EXCEPT ![j] =
                  [st |-> "live", id |-> j, origin |-> "from_bytes",
                   val |-> SecretNonce_dangerous_from_bytes(array)]]
           /\ pubnonces' = [pubnonces EXCEPT ![j] = Some(pub.val)]
           /\ seedOf' = [seedOf EXCEPT ![j] = seedOf[i]]
    /\ ret' = [op |-> "dangerous_from_bytes", panic |-> ""]
    /\ UNCHANGED <<legacyVars, tweakLog, msg, keys, cache, exported, nextId, aggIn, aggnonce,
                   session, psigs, signLog, sigIn, aggsig, ctxSeed>>

NextCancel ==
    \/ \E ks \in SeqsUpTo(KeyIds, MaxSigners) : KeyAggNew(ks)
    \/ \E i \in Signers, b \in Seeds \ {0} : NonceGen(i, b, "assume_unique")
    \/ \E i, j \in Signers, both \in BOOLEAN : MirrorNonce(i, j, both)
    \/ AggNonceNew([i \in DOMAIN keys |-> i])
    \/ SessionNew
    \/ \E i \in DOMAIN keys : PartialSign(i, keys[i])
    \/ \E sigs \in SeqsUpTo(SigEntries, MaxSigners) : PartialSigAgg(sigs)
    \/ \E m \in Msgs : Verify(m)

SpecCancel == Init /\ [][NextCancel]_vars

(***************************************************************************)
(* What an honest run is.                                                  *)
(***************************************************************************)
IsPermutationOfSigners(idx) ==
    /\ Len(idx) = Len(keys)
    /\ \A i \in DOMAIN keys : \E n \in DOMAIN idx : idx[n] = i

\* every signer generated a nonce pair and the aggregated nonce combines them all
HonestNonces ==
    /\ cache # NoCache
    /\ \A i \in DOMAIN keys : pubnonces[i].some /\ seedOf[i] # 0
    /\ aggnonce.some
    /\ IsPermutationOfSigners(aggIn)

\* no two signers holding the same key used the same seed
UniqueSeeds ==
    \A i, j \in DOMAIN keys : (i # j /\ keys[i] = keys[j]) => seedOf[i] # seedOf[j]

\* the partial signature signer i holds was made with the secret nonce that
\* belongs to the public nonce signer i published
HonestSig(i) ==
    /\ psigs[i].some
    /\ \E n \in DOMAIN signLog :
          /\ signLog[n].signer = i
          /\ signLog[n].sig = psigs[i].v
          /\ ecmult(signLog[n].val.k1, Generator) = pubnonces[i].v.R1
          /\ ecmult(signLog[n].val.k2, Generator) = pubnonces[i].v.R2

HonestSession ==
    /\ HonestNonces
    /\ session.some
    /\ \A i \in DOMAIN keys : HonestSig(i)

\* the list given to partial_sig_agg holds every signer's own signature once
HonestSigList ==
    /\ aggsig.some
    /\ IsPermutationOfSigners([n \in DOMAIN sigIn |-> sigIn[n].signer])
    /\ \A n \in DOMAIN sigIn : sigIn[n].delta = 0

PermutationsOf(n) ==
    {p \in [1..n -> 1..n] : \A i \in 1..n : \E j \in 1..n : p[j] = i}

(***************************************************************************)
(* Secret nonces are used once.                                            *)
(***************************************************************************)
SameGeneration(a, b) ==
    /\ a.origin = "nonce_gen" /\ b.origin = "nonce_gen"
    /\ keys[a.id] = keys[b.id]
    /\ seedOf[a.id] = seedOf[b.id]

\* C1 as stated: no two partial signatures of a run are produced from the
\* same secret-nonce value.
C1_NoTwoSignaturesFromOneNonceValue ==
    \A a, b \in DOMAIN signLog : a # b => signLog[a].val # signLog[b].val

\* C1: every SecretNonce object is taken by at most one partial_sign call, which
\* leaves the caller without it; two partial signatures come from the same
\* secret-nonce value only if that value was rebuilt from bytes with
\* dangerous_from_bytes or two nonce generations were given the same seed, key
\* and message.
C1_NonceObjectConsumedOnce ==
    /\ \A a, b \in DOMAIN signLog : a # b => signLog[a].id # signLog[b].id
    /\ \A a \in DOMAIN signLog, i \in Signers :
          nonces[i].st = "live" => nonces[i].id # signLog[a].id
    /\ \A a, b \in DOMAIN signLog :
          (a # b /\ signLog[a].val = signLog[b].val) =>
              \/ signLog[a].origin = "from_bytes"
              \/ signLog[b].origin = "from_bytes"
              \/ SameGeneration(signLog[a], signLog[b])

\* two partial signatures were made from one exported secret-nonce value
C1_ReusedThroughBytes ==
    \E a, b \in DOMAIN signLog :
        /\ a # b
        /\ signLog[a].val = signLog[b].val
        /\ signLog[a].origin = "from_bytes"
        /\ signLog[b].origin = "from_bytes"

(***************************************************************************)
(* The honest run verifies.                                                *)
(***************************************************************************)
\* the last call verified the aggregate of an honest run against the signed message
HonestVerify ==
    /\ ret.op = "verify"
    /\ ret.msg = msg
    /\ HonestSession
    /\ HonestSigList

\* C2: when every signer generated its nonce pair with a non-zero seed, the
\* aggregated nonce and the session were built from all the public nonces and
\* the message, every signer signed with its own secret nonce and keypair, and
\* all the partial signatures were aggregated, verify against agg_pk() and the
\* message returns Ok.
C2_HonestSigningVerifies ==
    HonestVerify => (ret.ok /\ ret.err = "" /\ ret.assumed = "Ok")

\* an honest run of two signers with different keys was verified
C2_TwoSignerRunVerified ==
    /\ HonestVerify
    /\ Len(keys) = 2 /\ keys[1] # keys[2]
    /\ ret.ok

(***************************************************************************)
(* Panics on a zero seed and on empty lists.                               *)
(***************************************************************************)
\* C3: nonce generation from an all-zero seed panics, with "session secrets may
\* not be all zero" in assume_unique_per_nonce_gen and with new_nonce_pair's
\* panic when the library reports the failure, and no signer ever holds a nonce
\* pair that was made from an all-zero seed.
C3_ZeroSeedPanics ==
    /\ (ret.op = "nonce_gen" /\ ret.seed = 0) =>
          ret.panic = (IF ret.ctor = "assume_unique"
                       THEN "session secrets may not be all zero"
                       ELSE "A zero session id was supplied")
    /\ (ret.op = "nonce_gen" /\ ret.seed # 0) => ret.panic = ""
    /\ \A i \in Signers :
          (pubnonces[i].some \/ nonces[i].st # "none") => seedOf[i] # 0

\* assume_unique_per_nonce_gen was given the all-zero seed and panicked
C3_ZeroSeedGiven ==
    /\ ret.op = "nonce_gen" /\ ret.seed = 0 /\ ret.ctor = "assume_unique"
    /\ Panicked
    /\ \E i \in DOMAIN keys : ~pubnonces[i].some

\* C4: KeyAggCache::new, AggregatedNonce::new and Session::partial_sig_agg panic
\* on an empty list and leave no value behind, and return a value for every
\* non-empty list.
C4_EmptyListPanics ==
    /\ ret.op = "KeyAggCache::new" =>
          IF ret.n = 0
          THEN ret.panic = "Cannot aggregate an empty slice of pubkeys" /\ cache = NoCache
          ELSE ret.panic = "" /\ cache # NoCache /\ Len(keys) = ret.n
    /\ ret.op = "AggregatedNonce::new" =>
          IF ret.n = 0
          THEN ret.panic = "Cannot aggregate an empty slice of nonces" /\ ~aggnonce.some
          ELSE ret.panic = "" /\ aggnonce.some /\ Len(aggIn) = ret.n
    /\ ret.op = "partial_sig_agg" =>
          IF ret.n = 0
          THEN /\ ret.panic = "Cannot aggregate an empty slice of partial signatures"
               /\ ~aggsig.some
          ELSE ret.panic = "" /\ aggsig.some /\ Len(sigIn) = ret.n

\* partial_sig_agg was given the empty list and panicked
C4_EmptySignatureList ==
    ret.op = "partial_sig_agg" /\ ret.n = 0 /\ Panicked /\ session.some

(***************************************************************************)
(* Key aggregation depends on the order of the keys.                       *)
(***************************************************************************)
CachesDiffer(c1, c2) ==
    /\ c1.panic = "" /\ c2.panic = ""
    /\ c1.val # c2.val
    /\ agg_pk(c1.val) # agg_pk(c2.val)

\* C5: for two distinct public keys A and B the caches of [A,B] and [B,A] differ,
\* as caches and in agg_pk(), and both differ from the caches of [A,A] and of
\* [A,A,B].
C5_KeyAggOrderSensitive ==
    (cache # NoCache /\ Len(keys) = 2 /\ keys[1] # keys[2]) =>
        LET A == PubKeyOf(keys[1])
            B == PubKeyOf(keys[2])
            ab == Returned(cache)
            ba == KeyAggCache_new(<<B, A>>)
            aa == KeyAggCache_new(<<A, A>>)
            aab == KeyAggCache_new(<<A, A, B>>)
        IN  /\ cache = KeyAggCache_new(<<A, B>>).val
            /\ CachesDiffer(ab, ba)
            /\ CachesDiffer(ab, aa) /\ CachesDiffer(ab, aab)
            /\ CachesDiffer(ba, aa) /\ CachesDiffer(ba, aab)

\* a cache was built from two different keys
C5_TwoKeysAggregated ==
    /\ ret.op = "KeyAggCache::new" /\ ret.n = 2
    /\ cache # NoCache /\ keys[1] # keys[2]

(***************************************************************************)
(* Partial signatures: aggregation in any order, verification.             *)
(***************************************************************************)
SentSigs == [n \in DOMAIN sigIn |-> SentSig(sigIn[n])]

\* C7: for the session and the list of partial signatures that was aggregated,
\* partial_sig_agg returns the same AggregatedSignature for every ordering of
\* the list, and the aggregate of the honest shares verifies in whatever order
\* they were given.
C7_SigAggPermutationInvariant ==
    /\ aggsig.some =>
          \A p \in PermutationsOf(Len(sigIn)) :
              LET r == Session_partial_sig_agg(session.v,
                                               [n \in DOMAIN sigIn |-> SentSigs[p[n]]])
              IN  r.panic = "" /\ r.val = aggsig.v
    /\ (HonestVerify /\ Len(sigIn) = 2 /\ sigIn[1].signer = 2) => ret.ok

\* the honest shares of two signers were aggregated in swapped order and verified
C7_SwappedSharesVerified ==
    /\ HonestVerify
    /\ Len(sigIn) = 2 /\ sigIn[1].signer = 2 /\ sigIn[2].signer = 1
    /\ psigs[1].v # psigs[2].v
    /\ ret.ok

\* C8 as stated: in an honest session partial_verify is true for a signer's own
\* nonce and key and false whenever the nonce or the key of another signer is
\* used.
C8_AcceptsOnlyOwnTriple ==
    (ret.op = "partial_verify" /\ HonestSession) =>
        (ret.ok <=> (ret.nonce = ret.sig /\ ret.key = ret.sig))

\* C8: in an honest session partial_verify is true for every signer's own
\* partial signature, public nonce and public key, and false whenever the public
\* nonce or the public key it is checked against has another value than the
\* signer's own (two signers that hold the same key have the same public key).
C8_AcceptsExactlyMatchingValues ==
    (ret.op = "partial_verify" /\ HonestSession) =>
        (ret.ok <=> (/\ pubnonces[ret.nonce].v = pubnonces[ret.sig].v
                     /\ PubKeyOf(keys[ret.key]) = PubKeyOf(keys[ret.sig])))

\* a partial signature was checked against another signer's, different, key
C8_CheckedAgainstOtherKey ==
    /\ ret.op = "partial_verify" /\ HonestSession
    /\ ret.nonce = ret.sig /\ ret.key # ret.sig
    /\ keys[ret.key] # keys[ret.sig]
    /\ ~ret.ok

(***************************************************************************)
(* Partial signatures that do not verify, and the aggregate.               *)
(***************************************************************************)
\* the nth partial signature of the aggregated list passes partial_verify for
\* the signer it was sent in for
SentSigVerifies(n) ==
    Session_partial_verify(session.v, cache, SentSig(sigIn[n]),
                           pubnonces[sigIn[n].signer].v, PubKeyOf(keys[sigIn[n].signer]))

FailingSigs == {n \in DOMAIN sigIn : ~SentSigVerifies(n)}

\* the last call verified an aggregate made in an honest session from one
\* partial signature per signer, each the signer's own or a forged one
ForgedVerify ==
    /\ ret.op = "verify"
    /\ ret.msg = msg
    /\ HonestSession
    /\ aggsig.some
    /\ IsPermutationOfSigners([n \in DOMAIN sigIn |-> sigIn[n].signer])

C10_DuplicatedShareFailsVerify ==
    (/\ ret.op = "verify" /\ ret.msg = msg
     /\ HonestSession /\ UniqueSeeds
     /\ Len(keys) = 2
     /\ aggsig.some
     /\ sigIn = <<[signer |-> 1, delta |-> 0], [signer |-> 1, delta |-> 0]>>)
    => (~ret.ok /\ ret.err = "IncorrectSignature" /\ ret.assumed = "Err")

\* the aggregate of [ps1, ps1] was verified in an honest session of two signers
C10_DuplicatedShareVerified ==
    /\ ret.op = "verify" /\ ret.msg = msg
    /\ HonestSession /\ UniqueSeeds
    /\ Len(keys) = 2 /\ keys[1] # keys[2]
    /\ aggsig.some
    /\ sigIn = <<[signer |-> 1, delta |-> 0], [signer |-> 1, delta |-> 0]>>
    /\ ret.assumed = "Err"

(***************************************************************************)
(* Nonce aggregation in any order.                                         *)
(***************************************************************************)
NonceLists == {idx \in SeqsUpTo(Signers, MaxSigners) :
                  idx # <<>> /\ \A k \in DOMAIN idx : pubnonces[idx[k]].some}

NonceList(idx) == [k \in DOMAIN idx |-> pubnonces[idx[k]].v]

SameMultiset(a, b) ==
    /\ Len(a) = Len(b)
    /\ \A k \in DOMAIN a :
          Cardinality({j \in DOMAIN a : a[j] = a[k]}) =
          Cardinality({j \in DOMAIN b : b[j] = a[k]})

\* the two lists have the same length and differ in exactly one position
OneReplaced(a, b) ==
    /\ Len(a) = Len(b)
    /\ Cardinality({k \in DOMAIN a : a[k] # b[k]}) = 1

NoInfiniteSum(list) ==
    LET sum == sum_pubnonces(list)
    IN  ~ge_is_infinity(sum.R1) /\ ~ge_is_infinity(sum.R2)

\* C6 as stated: the aggregate of a list of public nonces is the aggregate of
\* every permutation of it, and every list that is a different multiset of
\* nonces has a different aggregate.
C6_DifferentMultisetDifferentAggregate ==
    aggnonce.some =>
        \A idx \in NonceLists :
            LET r == AggregatedNonce_new(NonceList(idx))
            IN  /\ r.panic = ""
                /\ (r.val = aggnonce.v) <=> SameMultiset(NonceList(idx), NonceList(aggIn))

\* C6: the aggregate of a list of public nonces is the aggregate of every
\* permutation of it; and a list in which one nonce is replaced by a different
\* one (as [n2,n2] for [n1,n2]) has a different aggregate, provided that no
\* component of either sum is the point at infinity, which aggregation replaces
\* by the generator.
C6_NonceAggPermutationInvariant ==
    aggnonce.some =>
        \A idx \in NonceLists :
            LET r == AggregatedNonce_new(NonceList(idx))
            IN  /\ r.panic = ""
                /\ SameMultiset(NonceList(idx), NonceList(aggIn)) => r.val = aggnonce.v
                /\ (/\ OneReplaced(NonceList(idx), NonceList(aggIn))
                    /\ NoInfiniteSum(NonceList(idx))
                    /\ NoInfiniteSum(NonceList(aggIn))) => r.val # aggnonce.v

\* two different public nonces were aggregated, with no sum at infinity, and the
\* list that repeats the second one has no sum at infinity either
C6_TwoNoncesAggregated ==
    /\ ret.op = "AggregatedNonce::new"
    /\ aggIn = <<1, 2>>
    /\ pubnonces[1].v # pubnonces[2].v
    /\ NoInfiniteSum(NonceList(<<1, 2>>))
    /\ NoInfiniteSum(NonceList(<<2, 2>>))
    /\ AggregatedNonce_new(NonceList(<<2, 1>>)).val = aggnonce.v
    /\ AggregatedNonce_new(NonceList(<<2, 2>>)).val # aggnonce.v

(***************************************************************************)
(* Tweaks of the aggregate key.                                            *)
(***************************************************************************)
TweakOps == {"pubkey_ec_tweak_add", "pubkey_xonly_tweak_add"}

\* the entry of the tweak call that was the last call
LastTweak == tweakLog[Len(tweakLog)]

\* the aggregate key a tweak is added to: for an x-only tweak the aggregate
\* normalised to even y
TweakBase(e) ==
    IF e.xonly THEN x_only_public_key(e.before.data.pk) ELSE e.before.data.pk

\* C11 as stated: after a tweak that returned the public key K, agg_pk() is the
\* x-only form of K and, for a non-zero tweak, differs from agg_pk() before the
\* call.
C11_TweakChangesAggPk ==
    (ret.op \in TweakOps /\ ret.ok) =>
        /\ agg_pk(cache) = x_only_public_key(LastTweak.res.val)
        /\ LastTweak.tweak # 0 => agg_pk(cache) # agg_pk(LastTweak.before)

\* C11: after a tweak that returned the public key K, agg_pk() is the x-only
\* form of K; it differs from agg_pk() before the call for every non-zero tweak
\* except the one that turns the aggregate the tweak is added to into its
\* negation (K = -Q), which has the same x-only form.
C11_TweakConsistency ==
    (ret.op \in TweakOps /\ ret.ok) =>
        /\ agg_pk(cache) = x_only_public_key(LastTweak.res.val)
        /\ agg_pk_full(cache).val = LastTweak.res.val
        /\ (LastTweak.tweak # 0 /\ LastTweak.res.val # ge_neg(TweakBase(LastTweak)))
               => agg_pk(cache) # agg_pk(LastTweak.before)
        /\ LastTweak.res.val = ge_neg(TweakBase(LastTweak))
               => agg_pk(cache) = agg_pk(LastTweak.before)

\* a non-zero x-only tweak succeeded on an aggregate with odd y and changed agg_pk()
C11_TweakSucceeded ==
    /\ ret.op = "pubkey_xonly_tweak_add" /\ ret.ok
    /\ LastTweak.tweak # 0
    /\ has_odd_y(LastTweak.before.data.pk)
    /\ agg_pk(cache) # agg_pk(LastTweak.before)

\* two tweaks of the same kind were applied, one after the other, and succeeded
TwoTweaks(xonly) ==
    /\ Len(tweakLog) = 2
    /\ tweakLog[1].xonly = xonly /\ tweakLog[2].xonly = xonly
    /\ tweakLog[1].res.ok /\ tweakLog[2].res.ok

\* C12: after two successful plain tweaks t1 and t2 the cache has the aggregate
\* key (agg_pk and agg_pk_full) that one plain tweak by t1 + t2 gives on the
\* original cache; after two successful x-only tweaks the aggregate key is
\* norm(norm(Q) + t1*G) + t2*G, where norm takes the even-y representative.
C12_TweaksCompose ==
    /\ TwoTweaks(FALSE) =>
          LET single == pubkey_ec_tweak_add(tweakLog[1].before,
                            scalar_add(tweakLog[1].tweak, tweakLog[2].tweak))
          IN  /\ single.res.ok
              /\ agg_pk(single.cache) = agg_pk(cache)
              /\ agg_pk_full(single.cache) = agg_pk_full(cache)
    /\ TwoTweaks(TRUE) =>
          LET Q == tweakLog[1].before.data.pk
              Q1 == ge_add(x_only_public_key(Q), ecmult(tweakLog[1].tweak, Generator))
              Q2 == ge_add(x_only_public_key(Q1), ecmult(tweakLog[2].tweak, Generator))
          IN  /\ agg_pk_full(cache) = Returned(Q2)
              /\ agg_pk(cache) = x_only_public_key(Q2)

\* two non-zero plain tweaks that do not cancel were applied to an aggregate
\* with odd y
C12_TwoPlainTweaksApplied ==
    /\ TwoTweaks(FALSE)
    /\ tweakLog[1].tweak # 0 /\ tweakLog[2].tweak # 0
    /\ scalar_add(tweakLog[1].tweak, tweakLog[2].tweak) # 0
    /\ has_odd_y(tweakLog[1].before.data.pk)

\* C13: a tweak returns Err(InvalidTweakErr), without a panic, exactly when the
\* aggregate plus tweak*G is the point at infinity, and then the cache is as it
\* was before the call; for every other tweak it returns Ok.
C13_TweakFailsOnlyAtInfinity ==
    (ret.op \in TweakOps) =>
        /\ ret.panic = ""
        /\ ret.ok <=> ~ge_is_infinity(ge_add(TweakBase(LastTweak),
                                             ecmult(LastTweak.tweak, Generator)))
        /\ ~ret.ok => (ret.err = "InvalidTweakErr" /\ cache = LastTweak.before)
        /\ ret.ok => ret.err = ""

\* a plain tweak by the negation of the aggregate's discrete logarithm failed
C13_TweakFailed ==
    /\ ret.op = "pubkey_ec_tweak_add" /\ ~ret.ok
    /\ cache = LastTweak.before
    /\ LastTweak.tweak # 0

\* the aggregate key of the cache as KeyAggCache::new built it
UntweakedAggPk == agg_pk(KeyAggCache_new([i \in DOMAIN keys |-> PubKeyOf(keys[i])]).val)

SomeTweakSucceeded == \E n \in DOMAIN tweakLog : tweakLog[n].res.ok

\* C14 as stated: the aggregate signature of an honest run on a tweaked cache
\* verifies against the current agg_pk() and not against the aggregate key from
\* before the tweaks.
C14_NeverVerifiesUnderUntweakedKey ==
    (HonestVerify /\ SomeTweakSucceeded) =>
        /\ ret.ok
        /\ schnorr_verify(AggregatedSignature_assume_valid(aggsig.v), msg, UntweakedAggPk) = "Err"

\* C14: the aggregate signature of an honest run on a tweaked cache verifies
\* against the current agg_pk(); it does not verify against the aggregate key
\* from before the tweaks when the tweaks changed agg_pk() (a zero tweak, or
\* tweaks that cancel, leave it as it was).
C14_SigningUsesTweakedKey ==
    (HonestVerify /\ SomeTweakSucceeded) =>
        /\ ret.ok
        /\ agg_pk(cache) # UntweakedAggPk =>
              schnorr_verify(AggregatedSignature_assume_valid(aggsig.v), msg,
                             UntweakedAggPk) = "Err"

\* an honest run of two signers on a cache with a plain and an x-only tweak,
\* which changed the aggregate key, was verified
C14_TweakedRunVerified ==
    /\ HonestVerify
    /\ Len(keys) = 2
    /\ Len(tweakLog) = 2 /\ tweakLog[1].res.ok /\ tweakLog[2].res.ok
    /\ tweakLog[1].xonly # tweakLog[2].xonly
    /\ agg_pk(cache) # UntweakedAggPk
    /\ ret.ok

(***************************************************************************)
(* C15: byte round trip.  The serialization of every valid PublicNonce,    *)
(* AggregatedNonce and PartialSignature has 66, 66 and 32 bytes, parses    *)
(* with from_byte_array to a value equal to the one serialized, and that   *)
(* value serializes to the same bytes.                                     *)
(***************************************************************************)
C15_ByteRoundTrip ==
    ret.op = "serialize" =>
        LET parsed == Wire_from_byte_array(ret.type, ret.bytes)
        IN  /\ Len(ret.bytes) = (IF ret.type = "PartialSignature" THEN 32 ELSE 66)
            /\ parsed.ok
            /\ parsed.val = ret.self
            /\ Wire_serialize(ret.type, parsed.val) = ret.bytes

\* a nonce with an odd-y point and a coordinate that fills two bytes was serialized
C15_OddPointSerialized ==
    /\ ret.op = "serialize"
    /\ ret.type = "PublicNonce"
    /\ has_odd_y(ret.self.R1)
    /\ ret.self.R2 = 256
    /\ ret.bytes[1] = SECP256K1_TAG_PUBKEY_ODD
    /\ ret.bytes[65] = 1

(***************************************************************************)
(* C16: hex round trip.  to_string() of every valid PublicNonce,           *)
(* AggregatedNonce and PartialSignature is 2*size lowercase hex digits     *)
(* with no prefix and parses back to the value printed; a string of        *)
(* exactly 2*size lowercase hex digits that parses to a value is what      *)
(* to_string() of that value gives.                                        *)
(***************************************************************************)
LowercaseHexDigits == {"0", "1", "2", "3", "4", "5", "6", "7", "8", "9", "a", "b", "c", "d", "e", "f"}

CanonicalHex(T, str) ==
    /\ Len(str) = 2 * (IF T = "PartialSignature" THEN 32 ELSE 66)
    /\ \A i \in DOMAIN str : str[i] \in LowercaseHexDigits

C16_HexRoundTrip ==
    /\ ret.op = "to_string" =>
           LET parsed == Wire_from_str(ret.type, ret.str)
           IN  /\ CanonicalHex(ret.type, ret.str)
               /\ parsed.ok
               /\ parsed.val = ret.self
    /\ (ret.op = "from_str" /\ CanonicalHex(ret.type, ret.str) /\ ret.res.ok) =>
           Wire_to_string(ret.type, ret.res.val) = ret.str

\* a canonical string with a letter digit was parsed to an aggregated nonce
C16_CanonicalStringParsed ==
    /\ ret.op = "from_str"
    /\ ret.type = "AggregatedNonce"
    /\ CanonicalHex(ret.type, ret.str)
    /\ \E i \in DOMAIN ret.str : ret.str[i] \in {"a", "b", "c", "d", "e", "f"}
    /\ ret.res.ok
    /\ has_odd_y(ret.res.val.R2)

(***************************************************************************)
(* C17: every one of the four wire types PublicNonce, AggregatedNonce,     *)
(* PartialSignature and AggregateSignature has a hex text encoding, format *)
(* and parse: whatever value of a wire type a run holds can be printed as  *)
(* hex and parsed from hex.                                                *)
(***************************************************************************)
WireValueHeld(T) ==
    CASE T = "PublicNonce" -> \E i \in Signers : pubnonces[i].some
      [] T = "AggregatedNonce" -> aggnonce.some
      [] T = "PartialSignature" -> \E i \in Signers : psigs[i].some
      [] T = "AggregatedSignature" -> aggsig.some

C17_EveryWireTypeHasHex ==
    \A T \in DOMAIN WireImpls :
        WireValueHeld(T) => {"LowerHex", "Display", "FromStr"} \subseteq WireImpls[T]

(***************************************************************************)
(* C18: parsing untrusted input never aborts.  from_str on a string of the *)
(* wrong length or with a character that is no hex digit, and              *)
(* from_byte_array on bytes that are not the encoding of two curve points  *)
(* (nonces) or of a scalar below the group order (partial signature),      *)
(* return Err(ParseError::MalformedArg) without a panic, and no parse      *)
(* fails with any other error.                                             *)
(***************************************************************************)
HexDigitsAnyCase == LowercaseHexDigits \cup {"A", "B", "C", "D", "E", "F"}

CompressedPoints == {ge_serialize(P) : P \in 1..(GroupOrder - 1)}

ScalarEncodings == {be32(x) : x \in 0..(GroupOrder - 1)}

DecodesToValid(T, data) ==
    IF T = "PartialSignature" THEN data \in ScalarEncodings
    ELSE /\ SubSeq(data, 1, 33) \in CompressedPoints
         /\ SubSeq(data, 34, 66) \in CompressedPoints

MalformedString(T, str) ==
    \/ Len(str) # 2 * (IF T = "PartialSignature" THEN 32 ELSE 66)
    \/ \E i \in DOMAIN str : str[i] \notin HexDigitsAnyCase

C18_MalformedInputRejected ==
    /\ ret.op = "from_str" =>
           /\ ret.panic = ""
           /\ MalformedString(ret.type, ret.str) =>
                  ~ret.res.ok /\ ret.res.err = "MalformedArg"
           /\ ~ret.res.ok => ret.res.err = "MalformedArg"
    /\ ret.op = "from_byte_array" =>
           /\ ret.panic = ""
           /\ ~DecodesToValid(ret.type, ret.data) =>
                  ~ret.res.ok /\ ret.res.err = "MalformedArg"
           /\ ~ret.res.ok => ret.res.err = "MalformedArg"

\* bytes whose second point has an x that is on no curve point were rejected
C18_BadPointRejected ==
    /\ ret.op = "from_byte_array"
    /\ ret.type = "PublicNonce"
    /\ SubSeq(ret.data, 1, 33) \in CompressedPoints
    /\ ret.data[34] = SECP256K1_TAG_PUBKEY_EVEN
    /\ be32_decode(SubSeq(ret.data, 35, 66)).v = (GroupOrder + 1) \div 2
    /\ ~ret.res.ok
    /\ ret.res.err = "MalformedArg"

(***************************************************************************)
(* C19: a Session is immutable after construction and reusable.  Every     *)
(* step taken while a session exists (partial_sign, partial_verify,        *)
(* partial_sig_agg, verify) leaves the session and the key aggregation     *)
(* cache as they were, and each partial_sign and partial_verify, however   *)
(* many calls went before it, returns what the same call returns on a      *)
(* fresh Session built from the same cache, aggregated nonce and message.  *)
(***************************************************************************)
FreshSession == Session_new(cache, aggnonce.v, msg).val

SessionStep ==
    session.some =>
        /\ session' = session
        /\ cache' = cache
        /\ (ret'.op = "partial_sign" /\ ret'.panic = "") =>
               psigs'[ret'.signer].v =
                   Session_partial_sign(FreshSession, nonces[ret'.signer].val,
                                        Keypair_from_secret_key(SecretKey(ret'.key)),
                                        cache).val
        /\ ret'.op = "partial_verify" =>
               ret'.ok = Session_partial_verify(FreshSession, cache, psigs[ret'.sig].v,
                                                pubnonces[ret'.nonce].v,
                                                PubKeyOf(keys[ret'.key]))

C19_SessionImmutable == [][SessionStep]_vars

\* two signers have signed on the one session, and a partial signature was
\* then verified on it
C19_SessionUsedTwice ==
    /\ session.some
    /\ Len(signLog) = 2
    /\ signLog[1].signer # signLog[2].signer
    /\ ret.op = "partial_verify"
    /\ ret.sig = signLog[2].signer
    /\ ret.ok

(***************************************************************************)
(* C20: AggregatedSignature::verify(aggregate_key, message) returns Ok     *)
(* exactly when single-signer Schnorr verification of the aggregate bytes  *)
(* against the key and the message succeeds, and                           *)
(* Err(Error::IncorrectSignature) otherwise; the signature in Ok is the    *)
(* one assume_valid() returns, and assume_valid() returns the bytes        *)
(* unchecked, whether they verify or not.                                  *)
(***************************************************************************)
C20_VerifyIsSchnorrVerify ==
    ret.op = "verify" =>
        /\ ret.panic = ""
        /\ ret.ok <=> schnorr_verify([r |-> aggsig.v.r, s |-> aggsig.v.s], ret.msg,
                                     agg_pk(cache)) = "Ok"
        /\ ret.ok => ret.sig = ret.assume_valid
        /\ ~ret.ok => ret.err = "IncorrectSignature"
        /\ ret.assume_valid = [r |-> aggsig.v.r, s |-> aggsig.v.s]

\* a forged aggregate was refused by verify while assume_valid returned it
C20_ForgedAggregateRefused ==
    /\ ret.op = "verify"
    /\ ret.msg = msg
    /\ \E n \in DOMAIN sigIn : sigIn[n].delta # 0
    /\ ~ret.ok
    /\ ret.err = "IncorrectSignature"
    /\ ret.assume_valid = aggsig.v

C22_StartRunsOnce ==
    /\ startRuns <= 1
    /\ \A t \in Threads :
           (th[t].op \in {"init", "verify", "verify_raw"}
                /\ th[t].pc \in {"inited", "lib", "idle"}) =>
               /\ startRuns = 1
               /\ started = "ready"

\* a thread that called while the start was running is still held back after
\* the start has finished and the other thread's init() is about to return
C22_SecondCallerWaited ==
    /\ th[1].pc = "inited"
    /\ th[2].pc = "wait"
    /\ th[2].op = "verify_raw"
    /\ startRuns = 1
    /\ started = "ready"

(***************************************************************************)
(* C23: the process-wide context is initialised before first use.  No      *)
(* thread is at the library call of sign, sign_compact, recover_compact,   *)
(* verify or verify_raw unless secp256k1_start has finished.               *)
(***************************************************************************)
C23_LibraryCallAfterInit ==
    \A t \in Threads : th[t].pc = "lib" => started = "ready"

(***************************************************************************)
(* C24: cache consistency.  In every state of a KeyAggCache, after its     *)
(* construction and after any sequence of plain and x-only tweaks that     *)
(* succeeded or failed, agg_pk() is the x-only form of agg_pk_full(); a    *)
(* tweak that succeeds moves both to the key it returns and a tweak that   *)
(* fails leaves the whole cache as it was.                                 *)
(***************************************************************************)
C24_CacheConsistent ==
    /\ cache # NoCache =>
           /\ agg_pk_full(cache).panic = ""
           /\ agg_pk(cache) = x_only_public_key(agg_pk_full(cache).val)
    /\ \A n \in DOMAIN tweakLog :
           LET after == IF n < Len(tweakLog) THEN tweakLog[n + 1].before ELSE cache
           IN  IF tweakLog[n].res.ok
               THEN /\ agg_pk_full(after).val = tweakLog[n].res.val
                    /\ agg_pk(after) = x_only_public_key(tweakLog[n].res.val)
               ELSE after = tweakLog[n].before

\* a tweak failed and a later non-zero tweak on the same cache moved the
\* aggregate key
C24_TweakedAfterFailure ==
    /\ Len(tweakLog) = 2
    /\ ~tweakLog[1].res.ok
    /\ tweakLog[2].res.ok
    /\ tweakLog[2].tweak # 0
    /\ agg_pk(cache) # agg_pk(tweakLog[1].before)

(***************************************************************************)
(* C25: the seed of the nonce derivation.  As stated: the nonce pair       *)
(* new_nonce_pair returns is the one derived from                          *)
(* seed XOR secret_key XOR extra_entropy.  What the code does: the pair is *)
(* derived from the session secret as the caller gave it, with the secret  *)
(* key and the extra randomness as separate inputs of the library's nonce  *)
(* function; the XORed value is the seed handed to with_global_context.    *)
(***************************************************************************)
NoncePairCall == ret.op = "new_nonce_pair" /\ ret.panic = ""

\* what the nonce function derives for the returned call from session id s
DerivedPair(s) ==
    secp256k1_musig_nonce_gen(s, ret.sec_key, PubKeyOf(keys[ret.signer]), Some(msg),
                              Some(cache), ret.extra_rand)

XoredSeed == nonce_pair_seed(ret.seed, ret.sec_key, ret.extra_rand)

C25_NonceFromXoredSeed ==
    NoncePairCall =>
        /\ DerivedPair(XoredSeed).ret = 1
        /\ nonces[ret.signer].val = DerivedPair(XoredSeed).sec_nonce
        /\ pubnonces[ret.signer].v = DerivedPair(XoredSeed).pub_nonce

C25_NonceFromSessionSecret ==
    NoncePairCall =>
        /\ DerivedPair(ret.seed).ret = 1
        /\ nonces[ret.signer].val = DerivedPair(ret.seed).sec_nonce
        /\ pubnonces[ret.signer].v = DerivedPair(ret.seed).pub_nonce
        /\ ctxSeed = XoredSeed

\* a call with a secret key and extra randomness whose XOR with the session
\* secret is another non-zero value, from which another pair would derive
C25_XorChangesSeed ==
    /\ NoncePairCall
    /\ ret.sec_key.some
    /\ ret.extra_rand.some
    /\ XoredSeed # ret.seed
    /\ XoredSeed # 0
    /\ pubnonces[ret.signer].v # DerivedPair(XoredSeed).pub_nonce

(***************************************************************************)
(* C26: degenerate nonce aggregation.  AggregatedNonce::new of a list that *)
(* is not empty does not fail, whatever the nonces sum to; each component  *)
(* of the result is the sum of the signers' points at that level, or the   *)
(* generator where that sum is the point at infinity.                      *)
(***************************************************************************)
C26_GeneratorForInfiniteSum ==
    (ret.op = "AggregatedNonce::new" /\ ret.n > 0) =>
        /\ ret.panic = ""
        /\ aggnonce.some
        /\ LET sum == sum_pubnonces(NonceList(aggIn))
           IN  /\ aggnonce.v.R1 = IF ge_is_infinity(sum.R1) THEN Generator ELSE sum.R1
               /\ aggnonce.v.R2 = IF ge_is_infinity(sum.R2) THEN Generator ELSE sum.R2
               /\ ~ge_is_infinity(aggnonce.v.R1)
               /\ ~ge_is_infinity(aggnonce.v.R2)

\* two public nonces whose first points cancel while the second do not
C26_FirstPointsCancel ==
    /\ ret.op = "AggregatedNonce::new"
    /\ Len(aggIn) = 2
    /\ aggnonce.some
    /\ ge_is_infinity(sum_pubnonces(NonceList(aggIn)).R1)
    /\ ~ge_is_infinity(sum_pubnonces(NonceList(aggIn)).R2)
    /\ aggnonce.v.R1 = Generator
    /\ aggnonce.v.R2 # Generator

(***************************************************************************)
(* C27: Session::new aborts only when the final nonce R1 + b*R2 is the     *)
(* point at infinity: for every cache, every aggregated nonce (combined    *)
(* from public nonces or parsed from bytes) and every message it aborts    *)
(* when that point is the identity and returns a Session when it is not.   *)
(***************************************************************************)
C27_AbortsOnlyOnIdentity ==
    ret.op = "Session::new" =>
        IF ge_is_infinity(EffectiveNonce(cache, aggnonce.v, msg))
        THEN ret.panic # "" /\ ~session.some
        ELSE /\ ret.panic = ""
             /\ session.some
             /\ session.v.fin_nonce = x_only_public_key(EffectiveNonce(cache, aggnonce.v, msg))

\* a peer's aggregated nonce made the final nonce vanish and Session::new
\* aborted
C27_AbortedOnIdentity ==
    /\ ret.op = "Session::new"
    /\ ret.panic # ""
    /\ ge_is_infinity(EffectiveNonce(cache, aggnonce.v, msg))

(***************************************************************************)
(* C28: a secret nonce is bound to the public key it was generated for.    *)
(* partial_sign with a SecretNonce generated for public key P and a key    *)
(* pair whose public key is not P aborts and returns no partial signature, *)
(* and so does partial_sign with a SecretNonce that holds the zeroes of a  *)
(* used nonce; every partial signature came from a nonce that was neither. *)
(***************************************************************************)
SignedNonce == nonces[ret.signer].val

C28_NonceBoundToKey ==
    /\ ret.op = "partial_sign" =>
           IF SignedNonce.magic /\ SignedNonce.pk = PubKeyOf(ret.key)
           THEN ret.panic = "" /\ psigs[ret.signer].some
           ELSE /\ ret.panic = "assertion failed: res == 1"
                /\ \A n \in DOMAIN signLog :
                       signLog[n].val # SignedNonce \/ signLog[n].signer # ret.signer
    /\ \A n \in DOMAIN signLog :
           /\ signLog[n].val.magic
           /\ signLog[n].val.pk = PubKeyOf(keys[signLog[n].signer])

\* a nonce generated for one key was used with the key pair of another key
C28_WrongKeyAborted ==
    /\ ret.op = "partial_sign"
    /\ ret.panic # ""
    /\ SignedNonce.magic
    /\ SignedNonce.pk # PubKeyOf(ret.key)

\* a nonce that holds the zeroes of a used nonce was used
C28_ZeroedNonceAborted ==
    /\ ret.op = "partial_sign"
    /\ ret.panic # ""
    /\ ~SignedNonce.magic
    /\ Len(signLog) > 0

(***************************************************************************)
(* C29: completeness of partial verification.  As stated: for a session    *)
(* built from the cache of the keys and the aggregate of the signers'      *)
(* public nonces, when the list given to partial_sig_agg holds one partial *)
(* signature per signer and each passes partial_verify against its         *)
(* signer's public nonce and public key, the aggregate passes verify       *)
(* against agg_pk() and the session message.                               *)
(***************************************************************************)
\* the last call verified, against the session message, the aggregate of one
\* partial signature per signer, each of which passes partial_verify
AllSharesVerified ==
    /\ ret.op = "verify"
    /\ ret.msg = msg
    /\ session.some
    /\ aggsig.some
    /\ IsPermutationOfSigners(aggIn)
    /\ IsPermutationOfSigners([n \in DOMAIN sigIn |-> sigIn[n].signer])
    /\ FailingSigs = {}

C29_CancelledNoncesFailVerify ==
    /\ AllSharesVerified
    /\ ge_is_infinity(sum_pubnonces(NonceList(aggIn)).R1)
    /\ ge_is_infinity(sum_pubnonces(NonceList(aggIn)).R2)
    /\ ~ret.ok

(***************************************************************************)
(* C30: the single-signer round trip.  Whenever sign(m, sk, nonce) has     *)
(* returned Ok(sig) to a thread, verify(m, sig, pk) with the public key of *)
(* sk returns Ok(()) and verify(m2, sig, pk) for another message m2        *)
(* returns Err(IncorrectSignature).                                        *)
(***************************************************************************)
\* thread t is back from verify of the signature sign returned to it, against
\* the public key of the signing key
VerifiedOwnSignature(t) ==
    /\ th[t].op = "verify"
    /\ th[t].pc = "idle"
    /\ th[t].held
    /\ th[t].sig.der
    /\ th[t].pk = PublicKey_from_secret_key(LegacyKey)

====
